---- MODULE Spec2Model ----
(***************************************************************************)
(* A model of debco's package database (internal/database) and dependency  *)
(* resolver (internal/resolve).                                            *)
(*                                                                         *)
(* Package names are small integers (ordered as the strings they stand     *)
(* for), versions are integers ordered as Debian versions are.  The zero   *)
(* Version (the Go zero value, used as the key of an unversioned virtual   *)
(* package and as the pivot of Get) is 0; a version such as "0~rc1" sorts  *)
(* before it and is TildeVersion.                                          *)
(***************************************************************************)
EXTENDS Integers, Sequences, FiniteSets, TLC

VARIABLES
    db,                \* PackageDB.tree of the database under test: records sorted by key
    live,              \* history: keys of the real records added and not since removed
    packageDB,         \* Resolve: the full package database (argument)
    include,           \* Resolve: includeNameVersions, parsed
    exclude,           \* Resolve: excludeNameVersions, parsed
    requestedPackages, \* Resolve: map name -> pinned version or none
    candidateDB,       \* Resolve: tree of candidateDB
    queue,             \* Resolve: closure queue
    visited,           \* Resolve: set of visited package IDs
    selectedDB,        \* Resolve: tree of selectedDB
    passes,            \* Resolve: passes of pruneUnsatisfied run in the current phase
    pc,                \* Resolve: position in the function
    err,               \* Resolve: "" or the kind of the returned error
    run,               \* history: which call of Resolve on these arguments this is
    firstOutcome,      \* history: what the first call returned
    mirror,            \* Packages: what the mirror answers for each candidate file
    sha256Sums,        \* Packages: Component.SHA256Sums, file name -> hex string
    tried,             \* Packages: the candidates requested so far, in order
    errs,              \* Packages: the joined errors
    packages,          \* Packages: the returned package list
    pkPc,              \* Packages: position in the function
    keyring,           \* Components: the keys of Source.keyring
    inRelease,         \* Components: the answer to the InRelease request
    signer,            \* Components: decoder.Signer()
    components,        \* Components: the returned component list
    relPc,             \* Components: position in the function
    relErr,            \* Components: "" or the kind of the returned error
    mu,                \* PackageDB.mu: 0 when no writer holds it, else the writer
    rlocked,           \* PackageDB.mu: the readers holding the read lock
    wq,                \* ingestion: per writer, the packages AddAll has still to add
    wstage,            \* ingestion: per writer, its position in AddAll / addPackage
    observed,          \* per reader, what its last query saw
    committed,         \* history: the tree when the write lock was last released
    platform,          \* build: index of the platform being processed
    phase,             \* build: the phase the build action is in
    tasks,             \* build: per bulk phase, the state of each of its goroutines
    cancelled,         \* build: the context of the current errgroup is cancelled
    downloaded,        \* build: packagePaths inside downloadSelectedPackages
    packagePaths,      \* build: what downloadSelectedPackages returned
    dataArchivePaths,  \* build: the slice the decompression workers fill
    platformOpts,      \* build: buildOpts.PlatformOpts
    succeeded,         \* history: the (platform, phase) pairs that returned no error
    afterFailure,      \* history: tasks that completed a blocking call after a sibling failed
    toDownload,        \* download: the selected records, in ForEach order
    workers,           \* download: per record, the state of its goroutine
    ctxDone,           \* download: the errgroup context is cancelled
    files,             \* download: the download directory, file name -> contents
    fetchedPaths,      \* download: packagePaths, as the goroutines append to it
    dlPc,              \* download: position in downloadSelectedPackages
    dlResult,          \* download: the returned packagePaths
    debs,              \* unpack: the package files at packagePaths, in input order
    decompressed,      \* unpack: per input, what its decompression worker has stored
    dpkgDatabaseFS,    \* unpack: the synthetic tree, path -> contents
    statusPackages,    \* unpack: the packages decoded so far
    unpackPc,          \* unpack: position in Unpack
    componentPackages, \* load: per component, what its Packages call returns
    ldStage,           \* load: per component, the position of its goroutine
    sourceDateEpoch,   \* load: the shared sourceDateEpoch of loadPackageDB
    ldPc,              \* load: position in loadPackageDB
    ldReturned,        \* load: what loadPackageDB returned
    groupFile,         \* users: the lines of /etc/group
    groupShadowFile,   \* users: /etc/gshadow, if there is one
    passwdFile,        \* users: the lines of /etc/passwd
    shadowFile,        \* users: /etc/shadow, if there is one
    backupFiles,       \* users: the "-" copies updateFile leaves
    usrCall            \* users: the calls made, each with its error

dbVars == <<db, live>>
resVars == <<packageDB, include, exclude, requestedPackages, candidateDB,
             queue, visited, selectedDB, passes, pc, err, run, firstOutcome>>
pkVars == <<mirror, sha256Sums, tried, errs, packages, pkPc>>
relVars == <<keyring, inRelease, signer, components, relPc, relErr>>
ccVars == <<mu, rlocked, wq, wstage, observed, committed>>
plVars == <<platform, phase, tasks, cancelled, downloaded, packagePaths,
            dataArchivePaths, platformOpts, succeeded, afterFailure>>
dlVars == <<toDownload, workers, ctxDone, files, fetchedPaths, dlPc, dlResult>>
upVars == <<debs, decompressed, dpkgDatabaseFS, statusPackages, unpackPc>>
ldVars == <<componentPackages, ldStage, sourceDateEpoch, ldPc, ldReturned>>
usrVars == <<groupFile, groupShadowFile, passwdFile, shadowFile, backupFiles, usrCall>>
auxVars == <<dlVars, upVars, ldVars, usrVars>>
envVars == <<pkVars, relVars, ccVars, plVars, auxVars>>
vars == <<db, live, packageDB, include, exclude, requestedPackages, candidateDB,
          queue, visited, selectedDB, passes, pc, err, run, firstOutcome,
          mirror, sha256Sums, tried, errs, packages, pkPc,
          keyring, inRelease, signer, components, relPc, relErr,
          mu, rlocked, wq, wstage, observed, committed,
          platform, phase, tasks, cancelled, downloaded, packagePaths,
          dataArchivePaths, platformOpts, succeeded, afterFailure,
          toDownload, workers, ctxDone, files, fetchedPaths, dlPc, dlResult,
          debs, decompressed, dpkgDatabaseFS, statusPackages, unpackPc,
          componentPackages, ldStage, sourceDateEpoch, ldPc, ldReturned,
          groupFile, groupShadowFile, passwdFile, shadowFile, backupFiles, usrCall>>

-----------------------------------------------------------------------------
\* Bounds and the universe of inputs.

NumURLs == 2
MaxInclude == 2

ZeroVersion == 0
TildeVersion == -1

Names == {1, 2, 3}
RealVersions == {TildeVersion, 1, 2}
URLs == 1..NumURLs

\* A dependency.Possibility: a name with an optional (operator, version).
Possi(n) == [name |-> n, hasVersion |-> FALSE, op |-> "", version |-> ZeroVersion]
PossiV(n, o, v) == [name |-> n, hasVersion |-> TRUE, op |-> o, version |-> v]

\* A types.Package.  Providers are kept as (name, version) handles: the only
\* fields of a provider the code ever reads.
Pkg(n, v, prov, deps, u) ==
    [name |-> n, version |-> v, isVirtual |-> FALSE, urls |-> u,
     provides |-> prov, providers |-> <<>>, preDepends |-> <<>>,
     depends |-> deps, priority |-> "optional"]

Handle(pkg) == [name |-> pkg.name, version |-> pkg.version]

\* The stanzas a repository may carry.  (name, version) fixes every field
\* but the URL list, which depends on the mirror the stanza was read from.
A1 == Pkg(1, 1, << <<PossiV(3, "=", 2)>> >>, <<>>, <<1>>)
B1(u) == Pkg(2, 1, << <<Possi(3)>> >>, <<>>, u)
B2 == Pkg(2, 2, << <<Possi(3)>> >>, <<>>, <<1>>)
BT == Pkg(2, TildeVersion, <<>>, <<>>, <<1>>)
C1 == Pkg(3, 1, <<>>, <<>>, <<1>>)
C2 == Pkg(3, 2, <<>>, << <<Possi(2)>> >>, <<1>>)

\* The URL lists a stanza of B1 may carry: one mirror, or a list that is out
\* of order and repeats a URL.
URLLists == {<<u>> : u \in URLs} \cup {<<NumURLs, 1, NumURLs>>}

Catalogue == {A1, B2, BT, C1, C2} \cup {B1(u) : u \in URLLists}

Batches == {<<>>} \cup {<<p>> : p \in Catalogue}
                  \cup {<<p, q>> : p \in Catalogue, q \in Catalogue}

-----------------------------------------------------------------------------
\* types.Package ordering and the btree primitives PackageDB uses.

Sign(x) == IF x < 0 THEN -1 ELSE IF x > 0 THEN 1 ELSE 0

VersionCompare(v, w) == Sign(v - w)

Compare(a, b) ==
    IF a.name # b.name THEN Sign(a.name - b.name)
    ELSE VersionCompare(a.version, b.version)

Less(a, b) == Compare(a, b) < 0

Key(n, v) == [name |-> n, version |-> v]

\* Index of the item equal to `item` under the tree's order, 0 when absent.
TreeIndex(tree, item) ==
    IF \E i \in DOMAIN tree : Compare(tree[i], item) = 0
    THEN CHOOSE i \in DOMAIN tree : Compare(tree[i], item) = 0
    ELSE 0

TreeHas(tree, item) == TreeIndex(tree, item) # 0

ReplaceOrInsert(tree, item) ==
    SelectSeq(tree, LAMBDA x : Less(x, item)) \o <<item>>
        \o SelectSeq(tree, LAMBDA x : Less(item, x))

TreeDelete(tree, item) ==
    SelectSeq(tree, LAMBDA x : Compare(x, item) # 0)

AscendGreaterOrEqual(tree, pivot) ==
    SelectSeq(tree, LAMBDA x : ~Less(x, pivot))

Reverse(s) == [i \in 1..Len(s) |-> s[Len(s) + 1 - i]]

DescendLessOrEqual(tree, pivot) ==
    Reverse(SelectSeq(tree, LAMBDA x : ~Less(pivot, x)))

\* The longest prefix of s whose elements all have the given name: an
\* iteration whose callback returns false at the first other name.
RECURSIVE WhileName(_, _)
WhileName(s, n) ==
    IF s = <<>> \/ Head(s).name # n THEN <<>>
    ELSE <<Head(s)>> \o WhileName(Tail(s), n)

\* The possibilities of a relation list, in the order the nested loops visit them.
RECURSIVE Possibilities(_)
Possibilities(rels) ==
    IF rels = <<>> THEN <<>> ELSE Head(rels) \o Possibilities(Tail(rels))

-----------------------------------------------------------------------------
\* PackageDB.

NewPackageDB == <<>>

VirtualPkg(possi) ==
    [name |-> possi.name,
     version |-> IF possi.hasVersion THEN possi.version ELSE ZeroVersion,
     isVirtual |-> TRUE, urls |-> <<>>, provides |-> <<>>, providers |-> <<>>,
     preDepends |-> <<>>, depends |-> <<>>, priority |-> ""]

RECURSIVE MergeURLs(_, _)
MergeURLs(existing, urls) ==
    IF urls = <<>> THEN existing
    ELSE IF \E i \in DOMAIN existing : existing[i] = Head(urls)
         THEN MergeURLs(existing, Tail(urls))
         ELSE MergeURLs(Append(existing, Head(urls)), Tail(urls))

AddProviderBroken(tree, pkg, possi) ==
    LET i == TreeIndex(tree, VirtualPkg(possi))
        virtualPkg == IF i # 0 THEN tree[i] ELSE VirtualPkg(possi)
    IN  ReplaceOrInsert(tree,
            [virtualPkg EXCEPT !.providers = Append(@, Handle(pkg))])

\* One iteration of the provides loop of addPackage.
AddProvider(tree, pkg, possi) ==
    LET i == TreeIndex(tree, VirtualPkg(possi))
        virtualPkg == IF i # 0 THEN tree[i] ELSE VirtualPkg(possi)
        found == \E k \in DOMAIN virtualPkg.providers :
                     Compare(virtualPkg.providers[k], pkg) = 0
    IN  IF found THEN tree
        ELSE ReplaceOrInsert(tree,
                 [virtualPkg EXCEPT !.providers = Append(@, Handle(pkg))])

RECURSIVE AddProviders(_, _, _)
AddProviders(tree, pkg, possis) ==
    IF possis = <<>> THEN tree
    ELSE AddProviders(AddProvider(tree, pkg, Head(possis)), pkg, Tail(possis))

addPackage(tree, pkg) ==
    LET i == TreeIndex(tree, pkg)
        merged == IF i # 0
                  THEN [tree[i] EXCEPT !.urls = MergeURLs(@, pkg.urls)]
                  ELSE pkg
    IN  AddProviders(ReplaceOrInsert(tree, merged), merged,
                     Possibilities(merged.provides))

DBAdd(tree, pkg) == addPackage(tree, pkg)

RECURSIVE DBAddAll(_, _)
DBAddAll(tree, packageList) ==
    IF packageList = <<>> THEN tree
    ELSE DBAddAll(addPackage(tree, Head(packageList)), Tail(packageList))

\* One iteration of the provides loop of Remove.
RemoveProvider(tree, pkg, possi) ==
    LET i == TreeIndex(tree, VirtualPkg(possi))
    IN  IF i = 0 THEN tree
        ELSE LET updatedProviders ==
                     SelectSeq(tree[i].providers, LAMBDA p : Compare(p, pkg) # 0)
                 virtualPkg == [tree[i] EXCEPT !.providers = updatedProviders]
             IN  IF Len(updatedProviders) = 0
                 THEN TreeDelete(tree, virtualPkg)
                 ELSE ReplaceOrInsert(tree, virtualPkg)

RECURSIVE RemoveProviders(_, _, _)
RemoveProviders(tree, pkg, possis) ==
    IF possis = <<>> THEN tree
    ELSE RemoveProviders(RemoveProvider(tree, pkg, Head(possis)), pkg, Tail(possis))

DBRemove(tree, pkg) ==
    RemoveProviders(TreeDelete(tree, pkg), pkg, Possibilities(pkg.provides))

RealRecords(tree) == SelectSeq(tree, LAMBDA x : ~x.isVirtual)

DBLen(tree) == Len(RealRecords(tree))

\* ForEach with a callback that fails exactly on the records of failOn:
\* the records the callback is called with, in order, and the error returned.
RECURSIVE UntilError(_, _)
UntilError(s, failOn) ==
    IF s = <<>> THEN <<>>
    ELSE IF Handle(Head(s)) \in failOn THEN <<Head(s)>>
         ELSE <<Head(s)>> \o UntilError(Tail(s), failOn)

ForEachVisited(tree, failOn) == UntilError(RealRecords(tree), failOn)

ForEachError(tree, failOn) ==
    LET seen == ForEachVisited(tree, failOn)
    IN  seen # <<>> /\ Handle(seen[Len(seen)]) \in failOn

DBGet(tree, n) ==
    WhileName(AscendGreaterOrEqual(tree, Key(n, ZeroVersion)), n)

StrictlyEarlier(tree, n, v) ==
    SelectSeq(WhileName(DescendLessOrEqual(tree, Key(n, v)), n),
              LAMBDA x : VersionCompare(x.version, v) # 0)

EarlierOrEqual(tree, n, v) == WhileName(DescendLessOrEqual(tree, Key(n, v)), n)

\* The first item at or after (n, v), when it has that name and version.
ExactlyEqual(tree, n, v) ==
    LET s == AscendGreaterOrEqual(tree, Key(n, v))
    IN  IF s # <<>> /\ s[1].name = n /\ VersionCompare(s[1].version, v) = 0
        THEN <<s[1]>> ELSE <<>>

LaterOrEqual(tree, n, v) == WhileName(AscendGreaterOrEqual(tree, Key(n, v)), n)

StrictlyLater(tree, n, v) ==
    SelectSeq(WhileName(AscendGreaterOrEqual(tree, Key(n, v)), n),
              LAMBDA x : VersionCompare(x.version, v) # 0)

-----------------------------------------------------------------------------
\* The database under test: any sequence of Add / AddAll / Remove.

\* Component.Packages not running.
PkIdle ==
    /\ mirror = <<>> /\ sha256Sums = <<>> /\ tried = <<>> /\ errs = <<>>
    /\ packages = <<>> /\ pkPc = "idle"

\* decoder.Signer() == nil, and the value before a decoder exists.
NoSigner == 0
NoDecoder == -1

\* Source.Components not running.
RelIdle ==
    /\ keyring = {} /\ inRelease = <<>> /\ signer = NoDecoder
    /\ components = <<>> /\ relPc = "idle" /\ relErr = ""

\* No goroutine is using the database under test.
CcIdle ==
    /\ mu = 0 /\ rlocked = {} /\ wq = <<>> /\ wstage = <<>>
    /\ observed = <<>> /\ committed = <<>>

\* The build action not running.
PlIdle ==
    /\ platform = 0 /\ phase = "idle" /\ tasks = <<>> /\ cancelled = FALSE
    /\ downloaded = <<>> /\ packagePaths = <<>> /\ dataArchivePaths = <<>>
    /\ platformOpts = <<>> /\ succeeded = {} /\ afterFailure = {}

\* downloadSelectedPackages not running.
DlIdle ==
    /\ toDownload = <<>> /\ workers = <<>> /\ ctxDone = FALSE /\ files = <<>>
    /\ fetchedPaths = <<>> /\ dlPc = "idle" /\ dlResult = <<>>

\* Unpack not running.
UpIdle ==
    /\ debs = <<>> /\ decompressed = <<>> /\ dpkgDatabaseFS = <<>>
    /\ statusPackages = <<>> /\ unpackPc = "idle"

\* loadPackageDB not running.
LdIdle ==
    /\ componentPackages = <<>> /\ ldStage = <<>> /\ sourceDateEpoch = 0
    /\ ldPc = "idle" /\ ldReturned = <<>>

\* No user or group is being provisioned.
UsrIdle ==
    /\ groupFile = <<>> /\ groupShadowFile = <<>> /\ passwdFile = <<>>
    /\ shadowFile = <<>> /\ backupFiles = <<>> /\ usrCall = <<>>

AuxIdle == DlIdle /\ UpIdle /\ LdIdle /\ UsrIdle

EnvIdle == PkIdle /\ RelIdle /\ CcIdle /\ PlIdle /\ AuxIdle

\* What a call of Resolve returned: whether it succeeded and, if so, the
\* selected database.
NoOutcome == [ok |-> FALSE, sel |-> <<>>]

Outcome == [ok |-> err = "", sel |-> IF err = "" THEN selectedDB ELSE <<>>]

ResIdle ==
    /\ packageDB = <<>> /\ include = <<>> /\ exclude = <<>>
    /\ requestedPackages = <<>> /\ candidateDB = <<>> /\ queue = <<>>
    /\ visited = {} /\ selectedDB = <<>> /\ passes = 0 /\ pc = "idle" /\ err = ""
    /\ run = 1 /\ firstOutcome = NoOutcome

Init == db = NewPackageDB /\ live = {} /\ ResIdle /\ EnvIdle

Add(pkg) ==
    /\ db' = DBAdd(db, pkg)
    /\ live' = live \cup {Handle(pkg)}
    /\ UNCHANGED <<resVars, envVars>>

AddAll(packageList) ==
    /\ db' = DBAddAll(db, packageList)
    /\ live' = live \cup {Handle(packageList[i]) : i \in DOMAIN packageList}
    /\ UNCHANGED <<resVars, envVars>>

Remove(pkg) ==
    /\ db' = DBRemove(db, pkg)
    /\ live' = live \ {Handle(pkg)}
    /\ UNCHANGED <<resVars, envVars>>

Next ==
    \/ \E pkg \in Catalogue : Add(pkg)
    \/ \E packageList \in Batches : AddAll(packageList)
    \/ \E pkg \in Catalogue : Remove(pkg)

Spec == Init /\ [][Next]_vars

-----------------------------------------------------------------------------
\* The resolver: getDependencies, resolveVirtualPackage, pruneUnsatisfied.

\* An include or exclude entry, "name" or "name=version", after SplitN.
Entry(n) == [name |-> n, pinned |-> FALSE, version |-> ZeroVersion]
EntryV(n, v) == [name |-> n, pinned |-> TRUE, version |-> v]

ID(pkg) == Handle(pkg)

\* A (packages, error) result.  Failed carries the error "unsatisfiable
\* dependency: ...", Ambiguous the error "virtual package with multiple
\* installation candidates: ...".
Failed == [ok |-> FALSE, pkgs |-> <<>>, err |-> "UnsatisfiableDependency"]
Ambiguous == [ok |-> FALSE, pkgs |-> <<>>, err |-> "AmbiguousVirtual"]
Resolved(pkgs) == [ok |-> TRUE, pkgs |-> pkgs, err |-> ""]

\* The existing providers of a virtual package, in provider order.
RECURSIVE VirtualProviders(_, _)
VirtualProviders(full, providers) ==
    IF providers = <<>> THEN <<>>
    ELSE ExactlyEqual(full, Head(providers).name, Head(providers).version)
             \o VirtualProviders(full, Tail(providers))

resolveVirtualPackageBroken(full, cand, virtualPkg) ==
    LET virtualProviders == VirtualProviders(full, virtualPkg.providers)
    IN  IF Len(virtualProviders) = 0 THEN Failed
        ELSE Resolved(<<virtualProviders[1]>>)

resolveVirtualPackage(full, cand, virtualPkg) ==
    LET virtualProviders == VirtualProviders(full, virtualPkg.providers)
        inCand == SelectSeq(virtualProviders,
                      LAMBDA p : ExactlyEqual(cand, p.name, p.version) # <<>>)
        required == SelectSeq(virtualProviders, LAMBDA p : p.priority = "required")
    IN  IF Len(virtualProviders) = 0 THEN Failed
        ELSE IF Len(virtualProviders) = 1 THEN Resolved(<<virtualProviders[1]>>)
        ELSE IF inCand # <<>> THEN Resolved(<<inCand[1]>>)
        ELSE IF required # <<>> THEN Resolved(<<required[1]>>)
        ELSE Ambiguous

KnownOperators == {"<<", "<=", "=", ">=", ">>"}

\* The records of the full database a possibility names.
PossibilityList(full, possi) ==
    IF possi.hasVersion
    THEN CASE possi.op \in {"<<", "<="} ->
                  EarlierOrEqual(full, possi.name, possi.version)
           [] possi.op = "=" -> ExactlyEqual(full, possi.name, possi.version)
           [] possi.op \in {">=", ">>"} ->
                  LaterOrEqual(full, possi.name, possi.version)
           [] OTHER -> <<>>
    ELSE DBGet(full, possi.name)

\* packageList with every virtual record replaced by its resolved provider,
\* or dropped when it does not resolve.
RECURSIVE ResolvedPackages(_, _, _)
ResolvedPackages(full, cand, packageList) ==
    IF packageList = <<>> THEN <<>>
    ELSE LET pkg == Head(packageList)
             rest == ResolvedPackages(full, cand, Tail(packageList))
         IN  IF pkg.isVirtual
             THEN resolveVirtualPackage(full, cand, pkg).pkgs \o rest
             ELSE <<pkg>> \o rest

\* The possibility loop of one relation: the packages of the first
\* possibility that resolves to something.
RECURSIVE RelationPackages(_, _, _)
RelationPackages(full, cand, possis) ==
    IF possis = <<>> THEN Failed
    ELSE IF Head(possis).hasVersion /\ Head(possis).op \notin KnownOperators
         THEN Failed
    ELSE LET resolvedPackages ==
                 ResolvedPackages(full, cand, PossibilityList(full, Head(possis)))
         IN  IF Len(resolvedPackages) > 0 THEN Resolved(resolvedPackages)
             ELSE RelationPackages(full, cand, Tail(possis))

RECURSIVE RelationsPackages(_, _, _)
RelationsPackages(full, cand, relations) ==
    IF relations = <<>> THEN Resolved(<<>>)
    ELSE LET first == RelationPackages(full, cand, Head(relations))
             rest == RelationsPackages(full, cand, Tail(relations))
         IN  IF first.ok /\ rest.ok THEN Resolved(first.pkgs \o rest.pkgs)
             ELSE Failed

getDependencies(full, cand, pkg) ==
    RelationsPackages(full, cand, pkg.preDepends \o pkg.depends)

RECURSIVE RemoveEach(_, _)
RemoveEach(tree, pruneList) ==
    IF pruneList = <<>> THEN tree
    ELSE RemoveEach(DBRemove(tree, Head(pruneList)), Tail(pruneList))

\* One pass of the loop of pruneUnsatisfied.
PruneList(cand, full) ==
    SelectSeq(RealRecords(cand), LAMBDA pkg : ~getDependencies(full, cand, pkg).ok)

\* The names an exclude list excludes: the keys of excludedPackages.
ExcludedNames(entries) == {entries[i].name : i \in DOMAIN entries}

\* The seed loop: [ok, cand, req] after the given include entries.
RECURSIVE Seed(_, _, _, _)
Seed(full, cand, req, entries) ==
    IF entries = <<>> THEN [ok |-> TRUE, cand |-> cand, req |-> req]
    ELSE LET e == Head(entries)
             req1 == (e.name :> [pinned |-> e.pinned, version |-> e.version]) @@ req
             packageList == IF e.pinned
                            THEN ExactlyEqual(full, e.name, e.version)
                            ELSE DBGet(full, e.name)
         IN  IF Len(packageList) = 0
             THEN [ok |-> FALSE, cand |-> cand, req |-> req1]
             ELSE Seed(full, DBAddAll(cand, packageList), req1, Tail(entries))

AlreadyVisitedBroken(seen, id) == FALSE

\* visited[id].
AlreadyVisited(seen, id) == id \in seen

\* The loop over the dependencies of one dequeued package: [cand, queue].
RECURSIVE Enqueue(_, _, _, _, _)
Enqueue(cand, q, deps, seen, excluded) ==
    IF deps = <<>> THEN [cand |-> cand, queue |-> q]
    ELSE LET depPkg == Head(deps)
         IN  IF depPkg.name \in excluded \/ AlreadyVisited(seen, ID(depPkg))
             THEN Enqueue(cand, q, Tail(deps), seen, excluded)
             ELSE Enqueue(DBAdd(cand, depPkg), Append(q, depPkg), Tail(deps),
                          seen, excluded)

\* The callback of the selection ForEach.
SelectOne(sel, req, pkg) ==
    LET existing == DBGet(sel, pkg.name)
    IN  IF pkg.name \in DOMAIN req /\ req[pkg.name].pinned
        THEN IF VersionCompare(pkg.version, req[pkg.name].version) = 0
             THEN DBAdd(sel, pkg) ELSE sel
        ELSE IF Len(existing) > 0
             THEN IF VersionCompare(pkg.version, existing[1].version) > 0
                  THEN DBAdd(DBRemove(sel, existing[1]), pkg)
                  ELSE sel
             ELSE DBAdd(sel, pkg)

RECURSIVE SelectAll(_, _, _)
SelectAll(sel, req, pkgs) ==
    IF pkgs = <<>> THEN sel
    ELSE SelectAll(SelectOne(sel, req, Head(pkgs)), req, Tail(pkgs))

\* The final check of one requested name.
StillSelected(sel, req, n) ==
    IF req[n].pinned THEN ExactlyEqual(sel, n, req[n].version) # <<>>
    ELSE Len(DBGet(sel, n)) # 0

\* The orders in which a range over a map with the given keys may visit them.
Orders(keys) ==
    {o \in [1..Cardinality(keys) -> keys] : \A k \in keys : \E i \in DOMAIN o : o[i] = k}

VerifyLoopBroken(sel, req, order) ==
    order = <<>> \/ StillSelected(sel, req, Head(order))

\* The final loop over requestedPackages, visiting the names in the given
\* order and returning at the first one that is not selected.
RECURSIVE VerifyLoop(_, _, _)
VerifyLoop(sel, req, order) ==
    IF order = <<>> THEN TRUE
    ELSE IF ~StillSelected(sel, req, Head(order)) THEN FALSE
    ELSE VerifyLoop(sel, req, Tail(order))

-----------------------------------------------------------------------------
\* Resolve, one phase (or one iteration of a phase's loop) per step.

\* The stanzas of a repository, in index order.
Stanzas == <<A1, B1(<<1>>), B2, BT, C1, C2>>

RECURSIVE Pick(_, _, _)
Pick(s, chosen, i) ==
    IF i > Len(s) THEN <<>>
    ELSE IF i \in chosen THEN <<s[i]>> \o Pick(s, chosen, i + 1)
         ELSE Pick(s, chosen, i + 1)

\* A package database is what AddAll builds from the indices read.
PackageDBs ==
    {DBAddAll(NewPackageDB, Pick(Stanzas, chosen, 1)) : chosen \in SUBSET DOMAIN Stanzas}
    \cup {DBAddAll(NewPackageDB, Reverse(Pick(Stanzas, chosen, 1))) :
              chosen \in SUBSET DOMAIN Stanzas}

IncludeEntries ==
    {Entry(n) : n \in Names} \cup {EntryV(2, v) : v \in RealVersions}

RECURSIVE ListsUpTo(_, _)
ListsUpTo(S, k) ==
    IF k = 0 THEN {<<>>}
    ELSE LET shorter == ListsUpTo(S, k - 1)
         IN  shorter \cup {Append(l, e) : l \in shorter, e \in S}

IncludeLists == ListsUpTo(IncludeEntries, MaxInclude)

ExcludeLists == {<<>>, <<Entry(2)>>, <<EntryV(3, 1)>>}

DBIdle == db = NewPackageDB /\ live = {}

ResInit ==
    /\ DBIdle
    /\ packageDB \in PackageDBs
    /\ include \in IncludeLists
    /\ exclude \in ExcludeLists
    /\ requestedPackages = <<>> /\ candidateDB = NewPackageDB /\ queue = <<>>
    /\ visited = {} /\ selectedDB = NewPackageDB /\ passes = 0
    /\ pc = "seed" /\ err = ""
    /\ run = 1 /\ firstOutcome = NoOutcome
    /\ EnvIdle

ResolveSeed ==
    /\ pc = "seed"
    /\ LET r == Seed(packageDB, NewPackageDB, <<>>, include)
       IN  /\ requestedPackages' = r.req
           /\ candidateDB' = r.cand
           /\ queue' = IF r.ok THEN RealRecords(r.cand) ELSE <<>>
           /\ pc' = IF r.ok THEN "closure" ELSE "done"
           /\ err' = IF r.ok THEN "" ELSE "PackageNotFound"
    /\ UNCHANGED <<envVars, db, live, run, firstOutcome, packageDB, include, exclude, visited, selectedDB, passes>>

ResolveClosure ==
    /\ pc = "closure" /\ queue # <<>>
    /\ LET pkg == Head(queue)
           deps == getDependencies(packageDB, candidateDB, pkg)
           seen == visited \cup {ID(pkg)}
           r == Enqueue(candidateDB, Tail(queue), deps.pkgs, seen,
                        ExcludedNames(exclude))
       IN  IF AlreadyVisited(visited, ID(pkg))
           THEN /\ queue' = Tail(queue)
                /\ UNCHANGED <<visited, candidateDB, pc, err>>
           ELSE IF ~deps.ok
           THEN /\ visited' = seen
                /\ queue' = Tail(queue)
                /\ pc' = "done" /\ err' = deps.err
                /\ UNCHANGED candidateDB
           ELSE /\ visited' = seen
                /\ candidateDB' = r.cand
                /\ queue' = r.queue
                /\ UNCHANGED <<pc, err>>
    /\ UNCHANGED <<envVars, db, live, run, firstOutcome, packageDB, include, exclude, requestedPackages,
                   selectedDB, passes>>

ResolveClosureDone ==
    /\ pc = "closure" /\ queue = <<>>
    /\ pc' = "prune" /\ passes' = 0
    /\ UNCHANGED <<envVars, db, live, run, firstOutcome, packageDB, include, exclude, requestedPackages,
                   candidateDB, queue, visited, selectedDB, err>>

ResolvePrune ==
    /\ pc = "prune"
    /\ LET pruneList == PruneList(candidateDB, packageDB)
       IN  /\ candidateDB' = RemoveEach(candidateDB, pruneList)
           /\ pc' = IF Len(pruneList) = 0 THEN "select" ELSE "prune"
    /\ passes' = passes + 1
    /\ UNCHANGED <<envVars, db, live, run, firstOutcome, packageDB, include, exclude, requestedPackages,
                   queue, visited, selectedDB, err>>

ResolveSelect ==
    /\ pc = "select"
    /\ selectedDB' = SelectAll(NewPackageDB, requestedPackages, RealRecords(candidateDB))
    /\ pc' = "reprune" /\ passes' = 0
    /\ UNCHANGED <<envVars, db, live, run, firstOutcome, packageDB, include, exclude, requestedPackages,
                   candidateDB, queue, visited, err>>

ResolveReprune ==
    /\ pc = "reprune"
    /\ LET pruneList == PruneList(selectedDB, packageDB)
       IN  /\ selectedDB' = RemoveEach(selectedDB, pruneList)
           /\ pc' = IF Len(pruneList) = 0 THEN "verify" ELSE "reprune"
    /\ passes' = passes + 1
    /\ UNCHANGED <<envVars, db, live, run, firstOutcome, packageDB, include, exclude, requestedPackages,
                   candidateDB, queue, visited, err>>

ResolveVerify ==
    /\ pc = "verify"
    /\ pc' = "done"
    /\ \E order \in Orders(DOMAIN requestedPackages) :
           err' = IF VerifyLoop(selectedDB, requestedPackages, order)
                  THEN "" ELSE "PinDroppedDuringResolution"
    /\ UNCHANGED <<envVars, db, live, run, firstOutcome, packageDB, include, exclude,
                   requestedPackages, candidateDB, queue, visited, selectedDB, passes>>

\* A second call of Resolve with the same arguments, once the first returned.
ResolveAgain ==
    /\ pc = "done" /\ run = 1
    /\ run' = 2
    /\ firstOutcome' = Outcome
    /\ requestedPackages' = <<>> /\ candidateDB' = NewPackageDB /\ queue' = <<>>
    /\ visited' = {} /\ selectedDB' = NewPackageDB /\ passes' = 0
    /\ pc' = "seed" /\ err' = ""
    /\ UNCHANGED <<envVars, db, live, packageDB, include, exclude>>

ResNext ==
    \/ ResolveSeed
    \/ ResolveClosure
    \/ ResolveClosureDone
    \/ ResolvePrune
    \/ ResolveSelect
    \/ ResolveReprune
    \/ ResolveVerify
    \/ ResolveAgain

SpecResolve == ResInit /\ [][ResNext]_vars

\* A repository with a virtual package: some-pkg (7) depends on awk (4),
\* which gawk (5) and mawk (6) provide, each with one of two priorities.
Prioritised(pkg, priority) == [pkg EXCEPT !.priority = priority]

Priorities == {"required", "optional"}

SomePkg == Pkg(7, 1, <<>>, << <<Possi(4)>> >>, <<1>>)
Gawk == Pkg(5, 1, << <<Possi(4)>> >>, <<>>, <<1>>)
Mawk == Pkg(6, 1, << <<Possi(4)>> >>, <<>>, <<1>>)

AwkIndices ==
    {<<SomePkg>>, <<>>} \X
    ({<<>>} \cup {<<Prioritised(Mawk, p)>> : p \in Priorities}) \X
    ({<<>>} \cup {<<Prioritised(Gawk, p)>> : p \in Priorities})

AwkPackageDBs ==
    {DBAddAll(NewPackageDB, i[1] \o i[2] \o i[3]) : i \in AwkIndices}
    \cup {DBAddAll(NewPackageDB, i[3] \o i[2] \o i[1]) : i \in AwkIndices}

AwkIncludeLists == ListsUpTo({Entry(5), Entry(6), Entry(7)}, MaxInclude)

AwkExcludeLists == {<<>>, <<Entry(6)>>}

VirtualInit ==
    /\ DBIdle
    /\ packageDB \in AwkPackageDBs
    /\ include \in AwkIncludeLists
    /\ exclude \in AwkExcludeLists
    /\ requestedPackages = <<>> /\ candidateDB = NewPackageDB /\ queue = <<>>
    /\ visited = {} /\ selectedDB = NewPackageDB /\ passes = 0
    /\ pc = "seed" /\ err = ""
    /\ run = 1 /\ firstOutcome = NoOutcome
    /\ EnvIdle

SpecVirtual == VirtualInit /\ [][ResNext]_vars

\* A repository with dependencies: app (1) depends on lib (2) by version, on
\* lib or alt (3), or on the virtual package 4 that lib 1 and alt 1 may
\* provide; lib 1 may depend on app; lib 2 may depend on a package (9) that
\* no repository has.
AppVersioned == Pkg(1, 1, <<>>, << <<PossiV(2, "<=", 1)>> >>, <<1>>)
AppAlternatives == Pkg(1, 1, <<>>, << <<Possi(2), Possi(3)>> >>, <<1>>)
AppVirtual == Pkg(1, 1, <<>>, << <<Possi(4)>> >>, <<1>>)
Lib1 == Pkg(2, 1, <<>>, <<>>, <<1>>)
Lib1Cyclic == Pkg(2, 1, <<>>, << <<Possi(1)>> >>, <<1>>)
Lib1Provider == Pkg(2, 1, << <<Possi(4)>> >>, <<>>, <<1>>)
Lib2 == Pkg(2, 2, <<>>, <<>>, <<1>>)
Lib2Unsatisfiable == Pkg(2, 2, <<>>, << <<Possi(9)>> >>, <<1>>)
Alt1 == Pkg(3, 1, <<>>, <<>>, <<1>>)
Alt1Provider == Pkg(3, 1, << <<Possi(4)>> >>, <<>>, <<1>>)

DepIndices ==
    {<<>>, <<AppVersioned>>, <<AppAlternatives>>, <<AppVirtual>>} \X
    {<<>>, <<Lib1>>, <<Lib1Cyclic>>, <<Lib1Provider>>} \X
    {<<>>, <<Lib2>>, <<Lib2Unsatisfiable>>} \X
    {<<>>, <<Alt1>>, <<Alt1Provider>>}

DepPackageDBs == {DBAddAll(NewPackageDB, i[1] \o i[2] \o i[3] \o i[4]) : i \in DepIndices}

DepIncludeLists == ListsUpTo({Entry(1), Entry(2)}, MaxInclude)

DepExcludeLists == {<<>>, <<Entry(2)>>}

DepsInit ==
    /\ DBIdle
    /\ packageDB \in DepPackageDBs
    /\ include \in DepIncludeLists
    /\ exclude \in DepExcludeLists
    /\ requestedPackages = <<>> /\ candidateDB = NewPackageDB /\ queue = <<>>
    /\ visited = {} /\ selectedDB = NewPackageDB /\ passes = 0
    /\ pc = "seed" /\ err = ""
    /\ run = 1 /\ firstOutcome = NoOutcome
    /\ EnvIdle

SpecDeps == DepsInit /\ [][ResNext]_vars

Succeeded == pc = "done" /\ err = ""

-----------------------------------------------------------------------------
\* hashreader.HashReader and Component.Packages.

\* Bytes of a digest.  SHA-256 has 32; the model keeps the first HashSize.
HashSize == 2

HexDigits == <<"0", "1", "2", "3", "4", "5", "6", "7", "8", "9",
               "a", "b", "c", "d", "e", "f">>
UpperHexDigits == <<"0", "1", "2", "3", "4", "5", "6", "7", "8", "9",
                    "A", "B", "C", "D", "E", "F">>

\* The digest of a byte string, told apart from every other by its identity.
Sha256(bytes) == [i \in 1..HashSize |-> (171 + 16 * bytes + i) % 256]

\* hex.EncodeToString, as sha256sum writes the Release entries.
RECURSIVE HexEncode(_)
HexEncode(bytes) ==
    IF bytes = <<>> THEN <<>>
    ELSE <<HexDigits[(Head(bytes) \div 16) + 1], HexDigits[(Head(bytes) % 16) + 1]>>
             \o HexEncode(Tail(bytes))

ToUpper(str) ==
    [i \in DOMAIN str |->
        IF \E d \in DOMAIN HexDigits : HexDigits[d] = str[i]
        THEN UpperHexDigits[CHOOSE d \in DOMAIN HexDigits : HexDigits[d] = str[i]]
        ELSE str[i]]

\* The value of a hex character, -1 for any other character.
FromHexChar(ch) ==
    IF \E d \in DOMAIN HexDigits : HexDigits[d] = ch
    THEN (CHOOSE d \in DOMAIN HexDigits : HexDigits[d] = ch) - 1
    ELSE IF \E d \in DOMAIN UpperHexDigits : UpperHexDigits[d] = ch
    THEN (CHOOSE d \in DOMAIN UpperHexDigits : UpperHexDigits[d] = ch) - 1
    ELSE -1

\* hex.DecodeString: [ok, bytes]; fails on a character that is no hex digit
\* and on an odd length.
RECURSIVE DecodeString(_)
DecodeString(str) ==
    IF str = <<>> THEN [ok |-> TRUE, bytes |-> <<>>]
    ELSE IF Len(str) = 1 THEN [ok |-> FALSE, bytes |-> <<>>]
    ELSE LET hi == FromHexChar(str[1])
             lo == FromHexChar(str[2])
             rest == DecodeString(SubSeq(str, 3, Len(str)))
         IN  IF hi < 0 \/ lo < 0 \/ ~rest.ok THEN [ok |-> FALSE, bytes |-> <<>>]
             ELSE [ok |-> TRUE, bytes |-> <<16 * hi + lo>> \o rest.bytes]

VerifyBroken(hasherSum, expected) ==
    DecodeString(expected).ok /\ Len(expected) <= 2 * HashSize

\* HashReader.Verify: TRUE when it returns no error.
Verify(hasherSum, expected) ==
    LET expectedHash == DecodeString(expected)
    IN  IF ~expectedHash.ok THEN FALSE
        ELSE expectedHash.bytes = hasherSum

\* A file a mirror may serve.  `file` is the identity of its bytes, `read`
\* that of the bytes the decompressor consumes (fewer when data trails the
\* compressed stream); a file may fail to decompress or to decode.
Body(file, read, decompresses, decodes, stanzas) ==
    [file |-> file, read |-> read, decompresses |-> decompresses,
     decodes |-> decodes, stanzas |-> stanzas]

Decoded(pkg) == [pkg EXCEPT !.urls = <<>>]

BodyA == Body(1, 1, TRUE, TRUE, <<Decoded(C1)>>)
BodyB == Body(2, 2, TRUE, TRUE, <<Decoded(B2), Decoded(C2)>>)
BodyAPadded == Body(3, 1, TRUE, TRUE, <<Decoded(C1)>>)
BodyCorrupt == Body(4, 4, FALSE, FALSE, <<>>)
BodyGarbage == Body(5, 5, TRUE, FALSE, <<>>)

Bodies == {BodyA, BodyB, BodyAPadded, BodyCorrupt, BodyGarbage}

\* What http.DefaultClient.Do gives for one request.
Response(sent, status, body) == [sent |-> sent, status |-> status, body |-> body]

Responses ==
    {Response(FALSE, 0, BodyCorrupt), Response(TRUE, 404, BodyCorrupt)}
        \cup {Response(TRUE, 200, b) : b \in Bodies}

CandidateNamesBroken == <<"Packages", "Packages.gz", "Packages.xz">>

CandidateNames == <<"Packages.xz", "Packages.gz", "Packages">>

FileNames == {"Packages.xz", "Packages.gz", "Packages"}

\* The hex strings a Release may carry for a file: the digest of a file in
\* either case, a string of odd length, a digest cut short or extended, one
\* with a character that is no hex digit.
ReleaseHashes ==
    LET h == HexEncode(Sha256(BodyA.file))
    IN  {h, ToUpper(h), HexEncode(Sha256(BodyB.file)), HexEncode(Sha256(BodyAPadded.file)),
         SubSeq(h, 1, Len(h) - 1), SubSeq(h, 1, Len(h) - 2), h \o <<"0", "0">>,
         [h EXCEPT ![1] = "g"]}

SHA256SumsMaps == {[n \in S |-> e] : S \in SUBSET FileNames, e \in ReleaseHashes}

\* c.SHA256Sums[name]: the empty string for a missing key.
Lookup(sums, name) == IF name \in DOMAIN sums THEN sums[name] ELSE <<>>

\* The URL of the source the component belongs to.
SourceURL == 1

\* The package list with the package URL appended to every record.
WithURL(packageList) ==
    [i \in DOMAIN packageList |->
        [packageList[i] EXCEPT !.urls = Append(packageList[i].urls, SourceURL)]]

\* One iteration of the candidate loop: the error it joins, "" when the
\* candidate is returned.
TryCandidate(resp, expected) ==
    IF ~resp.sent THEN "failed to download"
    ELSE IF resp.status # 200 THEN "failed to download: status"
    ELSE IF ~resp.body.decompresses THEN "failed to decompress"
    ELSE IF ~resp.body.decodes THEN "failed to unmarshal"
    ELSE IF ~Verify(Sha256(resp.body.read), expected) THEN "failed to verify"
    ELSE ""

notPk == <<dbVars, resVars, relVars, ccVars, plVars, auxVars>>

PackagesInit ==
    /\ DBIdle /\ ResIdle /\ RelIdle /\ CcIdle /\ PlIdle
    /\ mirror \in [FileNames -> Responses]
    /\ sha256Sums \in SHA256SumsMaps
    /\ tried = <<>> /\ errs = <<>> /\ packages = <<>> /\ pkPc = "loop"
    /\ AuxIdle

PackagesTry ==
    /\ pkPc = "loop" /\ Len(tried) < Len(CandidateNames)
    /\ LET name == CandidateNames[Len(tried) + 1]
           e == TryCandidate(mirror[name], Lookup(sha256Sums, name))
       IN  /\ tried' = Append(tried, name)
           /\ IF e = ""
              THEN /\ packages' = WithURL(mirror[name].body.stanzas)
                   /\ pkPc' = "returned"
                   /\ UNCHANGED errs
              ELSE /\ errs' = Append(errs, <<name, e>>)
                   /\ UNCHANGED <<packages, pkPc>>
    /\ UNCHANGED <<notPk, mirror, sha256Sums>>

PackagesFail ==
    /\ pkPc = "loop" /\ Len(tried) = Len(CandidateNames)
    /\ pkPc' = "failed"
    /\ UNCHANGED <<notPk, mirror, sha256Sums, tried, errs, packages>>

PackagesNext == PackagesTry \/ PackagesFail

SpecPackages == PackagesInit /\ [][PackagesNext]_vars

-----------------------------------------------------------------------------
\* Source.Components.

Keys == {1, 2}

\* Path strings are kept as their segments: "updates/main" is
\* <<"updates", "main">>.  No segment used here is a prefix of another, so
\* strings.HasPrefix is the prefix relation on segments.
PathBase(path) == <<path[Len(path)]>>

HasPrefix(str, prefix) ==
    Len(prefix) <= Len(str) /\ SubSeq(str, 1, Len(prefix)) = prefix

TrimPrefix(str, prefix) ==
    IF HasPrefix(str, prefix) THEN SubSeq(str, Len(prefix) + 1, Len(str)) ELSE str

\* The SHA256 field of a Release: (file name, hash) entries.
ReleaseSHA256 ==
    << [filename |-> <<"main", "binary-amd64", "Packages.xz">>, hash |-> 1],
       [filename |-> <<"main", "binary-all", "Packages.xz">>, hash |-> 2],
       [filename |-> <<"contrib", "binary-amd64", "Packages.xz">>, hash |-> 3],
       [filename |-> <<"main", "binary-amd64", "Packages.xz">>, hash |-> 4] >>

\* An InRelease document: the key that signed it (0 when it carries no
\* signature), whether the signature matches the text, whether the text
\* decodes, and its Architectures and Components fields.
Document(signedBy, intact, decodes, architectures, comps) ==
    [status |-> 200, signedBy |-> signedBy, intact |-> intact, decodes |-> decodes,
     architectures |-> architectures, components |-> comps, sha256 |-> ReleaseSHA256]

Documents ==
    {Document(k, i, d, a, c) :
        k \in Keys \cup {0, 3}, i \in BOOLEAN, d \in BOOLEAN,
        a \in {<<>>, <<"arm64">>, <<"amd64">>, <<"all", "amd64", "arm64">>},
        c \in {<<>>, << <<"main">> >>, << <<"main">>, <<"contrib">> >>,
                << <<"updates", "main">>, <<"non-free">> >>}}

NotFound == [status |-> 404]

TargetArch == "amd64"

DefaultComponents == << <<"main">> >>

SourceComponents == {DefaultComponents, << <<"contrib">> >>, << <<"updates", "main">> >>}

\* deb822.NewDecoder on a document with a keyring, a library call: the
\* results it can give.  It names a signer only when the document carries
\* an intact signature by a key of the keyring; otherwise it fails or gives
\* a decoder without a signer.
NewDecoderResults(keys, doc) ==
    IF doc.signedBy = 0 THEN {[ok |-> TRUE, signer |-> NoSigner]}
    ELSE IF doc.signedBy \in keys /\ doc.intact
    THEN {[ok |-> TRUE, signer |-> doc.signedBy]}
    ELSE {[ok |-> FALSE, signer |-> NoDecoder], [ok |-> TRUE, signer |-> NoSigner]}

SignerMissingBroken(s) == FALSE

SignerMissing(s) == s = NoSigner

AvailableArchitectures(doc) ==
    SelectSeq(doc.architectures, LAMBDA a : a = "all" \/ a = TargetArch)

AvailableComponents(doc, wanted) ==
    SelectSeq(doc.components,
        LAMBDA c : (\E i \in DOMAIN DefaultComponents : DefaultComponents[i] = c)
                       \/ (\E i \in DOMAIN wanted : wanted[i] = c))

\* componentSHA256Sums after the loop over release.SHA256: a later entry
\* for the same file name replaces an earlier one.
RECURSIVE ComponentSHA256Sums(_, _, _)
ComponentSHA256Sums(sums, entries, componentDir) ==
    IF entries = <<>> THEN sums
    ELSE LET hash == Head(entries)
             next == IF HasPrefix(hash.filename, componentDir)
                     THEN (TrimPrefix(hash.filename, componentDir) :> hash.hash) @@ sums
                     ELSE sums
         IN  ComponentSHA256Sums(next, Tail(entries), componentDir)

ComponentsOf(doc, comp, archs) ==
    [j \in DOMAIN archs |->
        [name |-> comp, arch |-> archs[j],
         sums |-> ComponentSHA256Sums(<<>>, doc.sha256,
                      PathBase(comp) \o <<"binary-" \o archs[j]>>)]]

RECURSIVE ComponentList(_, _, _)
ComponentList(doc, comps, archs) ==
    IF comps = <<>> THEN <<>>
    ELSE ComponentsOf(doc, Head(comps), archs) \o ComponentList(doc, Tail(comps), archs)

notRel == <<dbVars, resVars, pkVars, ccVars, plVars, auxVars>>

ComponentsInit ==
    /\ DBIdle /\ ResIdle /\ PkIdle /\ CcIdle /\ PlIdle
    /\ keyring \in SUBSET Keys
    /\ inRelease \in Documents \cup {NotFound}
    /\ signer = NoDecoder /\ components = <<>> /\ relPc = "download" /\ relErr = ""
    /\ AuxIdle

\* The request and deb822.NewDecoder.
ComponentsDownload ==
    /\ relPc = "download"
    /\ IF inRelease.status # 200
       THEN /\ relPc' = "done" /\ relErr' = "failed to download InRelease file"
            /\ UNCHANGED signer
       ELSE \E r \in NewDecoderResults(keyring, inRelease) :
                IF r.ok
                THEN signer' = r.signer /\ relPc' = "signer" /\ UNCHANGED relErr
                ELSE /\ relPc' = "done" /\ relErr' = "failed to create decoder"
                     /\ UNCHANGED signer
    /\ UNCHANGED <<notRel, keyring, inRelease, components>>

\* The signer check.
ComponentsSigner ==
    /\ relPc = "signer"
    /\ IF SignerMissing(signer)
       THEN relPc' = "done" /\ relErr' = "ReleaseUnsigned"
       ELSE relPc' = "decode" /\ UNCHANGED relErr
    /\ UNCHANGED <<notRel, keyring, inRelease, signer, components>>

\* Decoding the Release and building the component list.
ComponentsBuild ==
    /\ relPc = "decode"
    /\ relPc' = "done"
    /\ \E wanted \in SourceComponents :
           LET archs == AvailableArchitectures(inRelease)
               comps == AvailableComponents(inRelease, wanted)
           IN  IF ~inRelease.decodes
               THEN relErr' = "failed to unmarshal InRelease file" /\ UNCHANGED components
               ELSE IF Len(archs) = 0 \/ Len(comps) = 0
               THEN UNCHANGED <<relErr, components>>
               ELSE components' = ComponentList(inRelease, comps, archs) /\ UNCHANGED relErr
    /\ UNCHANGED <<notRel, keyring, inRelease, signer>>

ComponentsNext == ComponentsDownload \/ ComponentsSigner \/ ComponentsBuild

SpecComponents == ComponentsInit /\ [][ComponentsNext]_vars

-----------------------------------------------------------------------------
\* PackageDB under concurrent use: goroutines calling AddAll, as
\* loadPackageDB starts one per component, and goroutines querying.

NumReaders == 1

Writers == {1, 2}
Readers == 1..NumReaders

\* The package lists of the components being ingested.
ComponentBatches ==
    {<<A1, C2>>, <<C2, A1>>, <<B1(<<1>>), B2>>, <<B1(<<2>>), C1>>, <<B1(<<1>>)>>}

NoObservation == [seen |-> <<>>, at |-> <<>>, any |-> FALSE]

\* The first half of addPackage: merge the URLs into an existing record
\* and store the record.
InsertPackage(tree, pkg) ==
    LET i == TreeIndex(tree, pkg)
        merged == IF i # 0
                  THEN [tree[i] EXCEPT !.urls = MergeURLs(@, pkg.urls)]
                  ELSE pkg
    IN  ReplaceOrInsert(tree, merged)

\* The second half: the provides loop, for the record as stored.
ProvidePackage(tree, pkg) ==
    LET stored == tree[TreeIndex(tree, pkg)]
    IN  AddProviders(tree, stored, Possibilities(stored.provides))

\* mu.Lock() can return: no writer and no reader holds the mutex.
Lock(w) == wstage[w] = "idle" /\ mu = 0 /\ rlocked = {}

\* mu.RLock() can return: no writer holds the mutex.
RLock(r) == r \notin rlocked /\ mu = 0

notCc == <<resVars, pkVars, relVars, plVars, auxVars>>

ConcurrentInit ==
    /\ DBIdle /\ ResIdle /\ PkIdle /\ RelIdle /\ PlIdle
    /\ mu = 0 /\ rlocked = {}
    /\ wq \in [Writers -> ComponentBatches]
    /\ wstage = [w \in Writers |-> "idle"]
    /\ observed = [r \in Readers |-> NoObservation]
    /\ committed = NewPackageDB
    /\ AuxIdle

WriterLock(w) ==
    /\ Lock(w)
    /\ mu' = w
    /\ wstage' = [wstage EXCEPT ![w] = "insert"]
    /\ UNCHANGED <<notCc, dbVars, rlocked, wq, observed, committed>>

WriterInsert(w) ==
    /\ mu = w /\ wstage[w] = "insert" /\ wq[w] # <<>>
    /\ db' = InsertPackage(db, Head(wq[w]))
    /\ live' = live \cup {Handle(Head(wq[w]))}
    /\ wstage' = [wstage EXCEPT ![w] = "provides"]
    /\ UNCHANGED <<notCc, mu, rlocked, wq, observed, committed>>

WriterProvides(w) ==
    /\ mu = w /\ wstage[w] = "provides"
    /\ db' = ProvidePackage(db, Head(wq[w]))
    /\ wq' = [wq EXCEPT ![w] = Tail(@)]
    /\ wstage' = [wstage EXCEPT ![w] = "insert"]
    /\ UNCHANGED <<notCc, live, mu, rlocked, observed, committed>>

WriterUnlock(w) ==
    /\ mu = w /\ wstage[w] = "insert" /\ wq[w] = <<>>
    /\ mu' = 0
    /\ wstage' = [wstage EXCEPT ![w] = "done"]
    /\ committed' = db
    /\ UNCHANGED <<notCc, dbVars, rlocked, wq, observed>>

ReaderLock(r) ==
    /\ RLock(r)
    /\ rlocked' = rlocked \cup {r}
    /\ UNCHANGED <<notCc, dbVars, mu, wq, wstage, observed, committed>>

\* A query under the read lock: what Get, the version queries and ForEach
\* can return is what the tree holds.
ReaderQuery(r) ==
    /\ r \in rlocked
    /\ observed' = [observed EXCEPT ![r] = [seen |-> db, at |-> committed, any |-> TRUE]]
    /\ UNCHANGED <<notCc, dbVars, mu, rlocked, wq, wstage, committed>>

ReaderUnlock(r) ==
    /\ r \in rlocked
    /\ rlocked' = rlocked \ {r}
    /\ UNCHANGED <<notCc, dbVars, mu, wq, wstage, observed, committed>>

ConcurrentNext ==
    \/ \E w \in Writers : WriterLock(w)
    \/ \E w \in Writers : WriterInsert(w)
    \/ \E w \in Writers : WriterProvides(w)
    \/ \E w \in Writers : WriterUnlock(w)
    \/ \E r \in Readers : ReaderLock(r)
    \/ \E r \in Readers : ReaderQuery(r)
    \/ \E r \in Readers : ReaderUnlock(r)

SpecConcurrent == ConcurrentInit /\ [][ConcurrentNext]_vars

-----------------------------------------------------------------------------
\* The build action: for each platform loadPackageDB, Resolve,
\* downloadSelectedPackages and Unpack, then the image build.  The bulk
\* phases run one goroutine per component, package or archive in an
\* errgroup; a goroutine makes NumCalls blocking calls and then stores its
\* result.

NumPlatforms == 2
NumTasks == 3
NumCalls == 2
NumCPU == 2
DownloadLimit == 10

Tasks == 1..NumTasks

BulkPhases == {"ingest", "download", "unpack"}

\* The phases of one platform, in program order.
PhaseOrder == <<"ingest", "resolve", "download", "unpack">>

\* The phase's goroutines take the context of errgroup.WithContext.
CtxAware(p) == p \in {"ingest", "download"}

\* The errgroup's limit on running goroutines.
Limit(p) ==
    CASE p = "ingest" -> NumTasks
      [] p = "download" -> DownloadLimit
      [] p = "unpack" -> NumCPU

NewTasks ==
    [p \in BulkPhases |-> [t \in Tasks |-> [st |-> "pending", calls |-> 0, ok |-> TRUE]]]

\* The file the t-th selected package is downloaded to.
PackagePath(t) == NumTasks + 1 - t

\* The data archive decompressPackage writes for a package file.
DecompressedDataArchivePath(packagePath) == <<"data.tar", packagePath>>

\* slices.Sort.
RECURSIVE SortPaths(_)
SortPaths(paths) ==
    IF paths = <<>> THEN <<>>
    ELSE LET m == CHOOSE i \in DOMAIN paths : \A j \in DOMAIN paths : paths[i] <= paths[j]
         IN  <<paths[m]>> \o SortPaths(SubSeq(paths, 1, m - 1) \o SubSeq(paths, m + 1, Len(paths)))

StoreAtBroken(slice, i, path) ==
    LET free == CHOOSE k \in DOMAIN slice :
                    slice[k] = <<>> /\ \A j \in 1..(k - 1) : slice[j] # <<>>
    IN  [slice EXCEPT ![free] = path]

\* dataArchivePaths[i] = dataArchivePath.
StoreAt(slice, i, path) == [slice EXCEPT ![i] = path]

Running(p) == {t \in Tasks : tasks[p][t].st = "running"}

SiblingFailed(p) == \E u \in Tasks : tasks[p][u].st = "returned" /\ ~tasks[p][u].ok

WaitReturnsBroken(p) == \E t \in Tasks : tasks[p][t].st = "returned"

\* g.Wait() returns: every goroutine of the group has returned.
WaitReturns(p) == \A t \in Tasks : tasks[p][t].st = "returned"

notPl == <<dbVars, resVars, pkVars, relVars, ccVars, auxVars>>

BuildInit ==
    /\ DBIdle /\ ResIdle /\ PkIdle /\ RelIdle /\ CcIdle /\ AuxIdle
    /\ platform = 1 /\ phase = "ingest" /\ tasks = NewTasks /\ cancelled = FALSE
    /\ downloaded = <<>> /\ packagePaths = <<>> /\ dataArchivePaths = <<>>
    /\ platformOpts = <<>> /\ succeeded = {} /\ afterFailure = {}

\* g.Go, called in loop order; it blocks while the limit is reached.
Go(p, t) ==
    /\ phase = p /\ tasks[p][t].st = "pending"
    /\ \A u \in 1..(t - 1) : tasks[p][u].st # "pending"
    /\ Cardinality(Running(p)) < Limit(p)
    /\ tasks' = [tasks EXCEPT ![p][t].st = "running"]
    /\ UNCHANGED <<notPl, platform, phase, cancelled, downloaded, packagePaths,
                   dataArchivePaths, platformOpts, succeeded, afterFailure>>

\* One blocking call of a goroutine.  With a cancelled context it returns
\* the context's error; otherwise it fails or succeeds.  The first error a
\* goroutine returns cancels the context of errgroup.WithContext.
Call(p, t) ==
    /\ phase = p /\ tasks[p][t].st = "running" /\ tasks[p][t].calls < NumCalls
    /\ IF CtxAware(p) /\ cancelled
       THEN /\ tasks' = [tasks EXCEPT ![p][t].st = "returned", ![p][t].ok = FALSE]
            /\ UNCHANGED <<cancelled, afterFailure>>
       ELSE \E fails \in BOOLEAN :
                IF fails
                THEN /\ tasks' = [tasks EXCEPT ![p][t].st = "returned", ![p][t].ok = FALSE]
                     /\ cancelled' = CtxAware(p)
                     /\ UNCHANGED afterFailure
                ELSE /\ tasks' = [tasks EXCEPT ![p][t].calls = @ + 1]
                     /\ afterFailure' = IF SiblingFailed(p)
                                         THEN afterFailure \cup {<<platform, p, t>>}
                                         ELSE afterFailure
                     /\ UNCHANGED cancelled
    /\ UNCHANGED <<notPl, platform, phase, downloaded, packagePaths,
                   dataArchivePaths, platformOpts, succeeded>>

\* A goroutine whose calls all succeeded stores its result and returns nil.
Return(p, t) ==
    /\ phase = p /\ tasks[p][t].st = "running" /\ tasks[p][t].calls = NumCalls
    /\ tasks' = [tasks EXCEPT ![p][t].st = "returned"]
    /\ downloaded' = IF p = "download" THEN Append(downloaded, PackagePath(t))
                      ELSE downloaded
    /\ dataArchivePaths' =
           IF p = "unpack"
           THEN StoreAt(dataArchivePaths, t, DecompressedDataArchivePath(packagePaths[t]))
           ELSE dataArchivePaths
    /\ UNCHANGED <<notPl, platform, phase, cancelled, packagePaths, platformOpts,
                   succeeded, afterFailure>>

\* g.Wait() and what follows it in loadPackageDB,
\* downloadSelectedPackages and Unpack.
Wait(p) ==
    /\ phase = p /\ WaitReturns(p)
    /\ IF \E t \in Tasks : ~tasks[p][t].ok
       THEN /\ phase' = "failed"
            /\ UNCHANGED <<packagePaths, dataArchivePaths, succeeded, cancelled>>
       ELSE /\ cancelled' = FALSE
            /\ CASE p = "ingest" ->
                     /\ phase' = "resolve"
                     /\ succeeded' = succeeded \cup {<<platform, p>>}
                     /\ UNCHANGED <<packagePaths, dataArchivePaths>>
                 [] p = "download" ->
                     /\ phase' = "unpack"
                     /\ succeeded' = succeeded \cup {<<platform, p>>}
                     /\ packagePaths' = SortPaths(downloaded)
                     /\ dataArchivePaths' = [i \in DOMAIN downloaded |-> <<>>]
                 [] p = "unpack" ->
                     /\ phase' = "extract"
                     /\ UNCHANGED <<packagePaths, dataArchivePaths, succeeded>>
    /\ UNCHANGED <<notPl, platform, tasks, downloaded, platformOpts, afterFailure>>

\* resolve.Resolve on the loaded database.
BuildResolve ==
    /\ phase = "resolve"
    /\ \E ok \in BOOLEAN :
           IF ok
           THEN phase' = "download" /\ succeeded' = succeeded \cup {<<platform, "resolve">>}
           ELSE phase' = "failed" /\ UNCHANGED succeeded
    /\ UNCHANGED <<notPl, platform, tasks, cancelled, downloaded, packagePaths,
                   dataArchivePaths, platformOpts, afterFailure>>

\* The rest of Unpack (control archives, dpkg database) and the append to
\* buildOpts.PlatformOpts; then the next platform.
\* The entry keeps packagePaths, the input its data archives were made from.
BuildExtract ==
    /\ phase = "extract"
    /\ \E ok \in BOOLEAN :
           IF ~ok
           THEN /\ phase' = "failed"
                /\ UNCHANGED <<platform, tasks, downloaded, packagePaths,
                               dataArchivePaths, platformOpts, succeeded>>
           ELSE /\ succeeded' = succeeded \cup {<<platform, "unpack">>}
                /\ platformOpts' = Append(platformOpts,
                       [platform |-> platform, packagePaths |-> packagePaths,
                        dataArchivePaths |-> dataArchivePaths])
                /\ IF platform < NumPlatforms
                   THEN /\ platform' = platform + 1 /\ phase' = "ingest"
                        /\ tasks' = NewTasks /\ downloaded' = <<>>
                        /\ packagePaths' = <<>> /\ dataArchivePaths' = <<>>
                   ELSE /\ phase' = "build"
                        /\ UNCHANGED <<platform, tasks, downloaded, packagePaths,
                                       dataArchivePaths>>
    /\ UNCHANGED <<notPl, cancelled, afterFailure>>

\* b.Build.
BuildImage ==
    /\ phase = "build"
    /\ \E ok \in BOOLEAN : phase' = IF ok THEN "done" ELSE "failed"
    /\ UNCHANGED <<notPl, platform, tasks, cancelled, downloaded, packagePaths,
                   dataArchivePaths, platformOpts, succeeded, afterFailure>>

BuildNext ==
    \/ \E p \in BulkPhases, t \in Tasks : Go(p, t)
    \/ \E p \in BulkPhases, t \in Tasks : Call(p, t)
    \/ \E p \in BulkPhases, t \in Tasks : Return(p, t)
    \/ \E p \in BulkPhases : Wait(p)
    \/ BuildResolve
    \/ BuildExtract
    \/ BuildImage

SpecBuild == BuildInit /\ [][BuildNext]_vars

-----------------------------------------------------------------------------
\* downloadSelectedPackages and downloadPackage.

NumRecords == 2

\* A package URL: the base name of its path and what the server gives for
\* it, a refused request or a body.
PackageURL(file, sent, body) == [file |-> file, sent |-> sent, body |-> body]

\* What a mirror does with the request for a package file: it refuses, serves
\* the file, or serves other bytes.
Mirrors == <<"refuses", "serves", "corrupts">>

MirrorURL(file, body, m) ==
    CASE Mirrors[m] = "refuses" -> PackageURL(file, FALSE, 0)
      [] Mirrors[m] = "serves" -> PackageURL(file, TRUE, body)
      [] Mirrors[m] = "corrupts" -> PackageURL(file, TRUE, body + NumRecords)

\* The URL lists of a record: one or two mirrors (Shuffle reorders them).
MirrorLists ==
    {<<m>> : m \in DOMAIN Mirrors}
        \cup {l \in (DOMAIN Mirrors) \X (DOMAIN Mirrors) : l[1] <= l[2]}

\* A selected record: its SHA256 field and its URLs.
Selected(file, body, mirrors) ==
    [file |-> file, sha256 |-> HexEncode(Sha256(body)),
     urls |-> [k \in DOMAIN mirrors |-> MirrorURL(file, body, mirrors[k])]]

\* The selected databases: record i has contents i; the file names ascend
\* or descend in ForEach order.
SelectedLists ==
    {[i \in 1..NumRecords |-> Selected(IF up THEN i ELSE NumRecords + 1 - i, i, lists[i])] :
        up \in BOOLEAN, lists \in [1..NumRecords -> MirrorLists]}

\* util.Shuffle: the slice in some order.
Shuffle(urls) ==
    {[i \in DOMAIN urls |-> urls[o[i]]] : o \in Orders(DOMAIN urls)}

downloadPackageBroken(done, pkgURL, sha256) ==
    IF done \/ ~pkgURL.sent
    THEN [ok |-> FALSE, created |-> FALSE, err |-> "failed to download package"]
    ELSE [ok |-> TRUE, created |-> TRUE, err |-> ""]

\* downloadPackage: whether it returns a path, whether it has created the
\* package file, and its error.
downloadPackage(done, pkgURL, sha256) ==
    IF done \/ ~pkgURL.sent
    THEN [ok |-> FALSE, created |-> FALSE, err |-> "failed to download package"]
    ELSE IF ~Verify(Sha256(pkgURL.body), sha256)
    THEN [ok |-> FALSE, created |-> TRUE, err |-> "failed to verify package"]
    ELSE [ok |-> TRUE, created |-> TRUE, err |-> ""]

\* os.Create and io.Copy: the file holds the body.
WriteFile(dir, name, contents) ==
    [n \in DOMAIN dir \cup {name} |-> IF n = name THEN contents ELSE dir[n]]

NewWorker == [st |-> "pending", order |-> <<>>, tried |-> <<>>, errs |-> <<>>, ok |-> TRUE]

notDl == <<dbVars, resVars, pkVars, relVars, ccVars, plVars, upVars, ldVars,
           usrVars>>

DownloadInit ==
    /\ DBIdle /\ ResIdle /\ PkIdle /\ RelIdle /\ CcIdle /\ PlIdle /\ UpIdle
    /\ LdIdle /\ UsrIdle
    /\ toDownload \in SelectedLists
    /\ workers = [r \in 1..NumRecords |-> NewWorker]
    /\ ctxDone = FALSE /\ files = <<>> /\ fetchedPaths = <<>>
    /\ dlPc = "running" /\ dlResult = <<>>

\* g.Go in the ForEach callback; the goroutine shuffles the URLs.
DownloadStart(r) ==
    /\ dlPc = "running" /\ workers[r].st = "pending"
    /\ \A q \in 1..(r - 1) : workers[q].st # "pending"
    /\ Cardinality({q \in 1..NumRecords : workers[q].st = "running"}) < DownloadLimit
    /\ \E order \in Shuffle(toDownload[r].urls) :
           workers' = [workers EXCEPT ![r].st = "running", ![r].order = order]
    /\ UNCHANGED <<notDl, toDownload, ctxDone, files, fetchedPaths, dlPc, dlResult>>

\* One iteration of the loop over the shuffled URLs.
DownloadTry(r) ==
    /\ dlPc = "running" /\ workers[r].st = "running" /\ workers[r].order # <<>>
    /\ LET pkgURL == Head(workers[r].order)
           res == downloadPackage(ctxDone, pkgURL, toDownload[r].sha256)
       IN  /\ files' = IF res.created THEN WriteFile(files, pkgURL.file, pkgURL.body)
                        ELSE files
           /\ IF res.ok
              THEN /\ fetchedPaths' = Append(fetchedPaths, pkgURL.file)
                   /\ workers' = [workers EXCEPT ![r].st = "returned",
                                                  ![r].tried = Append(@, [url |-> pkgURL, done |-> ctxDone]),
                                                  ![r].errs = <<>>]
              ELSE /\ workers' = [workers EXCEPT ![r].order = Tail(@),
                                                  ![r].tried = Append(@, [url |-> pkgURL, done |-> ctxDone]),
                                                  ![r].errs = Append(@, res.err)]
                   /\ UNCHANGED fetchedPaths
    /\ UNCHANGED <<notDl, toDownload, ctxDone, dlPc, dlResult>>

\* After the loop: the goroutine returns the joined errors, which cancels
\* the context, or nil when there are none.
DownloadGiveUp(r) ==
    /\ dlPc = "running" /\ workers[r].st = "running" /\ workers[r].order = <<>>
    /\ workers' = [workers EXCEPT ![r].st = "returned", ![r].ok = (workers[r].errs = <<>>)]
    /\ ctxDone' = (ctxDone \/ workers[r].errs # <<>>)
    /\ UNCHANGED <<notDl, toDownload, files, fetchedPaths, dlPc, dlResult>>

\* g.Wait(), the error return and slices.Sort.
DownloadWait ==
    /\ dlPc = "running" /\ \A r \in 1..NumRecords : workers[r].st = "returned"
    /\ IF \E r \in 1..NumRecords : ~workers[r].ok
       THEN dlPc' = "failed" /\ UNCHANGED dlResult
       ELSE dlPc' = "returned" /\ dlResult' = SortPaths(fetchedPaths)
    /\ UNCHANGED <<notDl, toDownload, workers, ctxDone, files, fetchedPaths>>

DownloadNext ==
    \/ \E r \in 1..NumRecords : DownloadStart(r)
    \/ \E r \in 1..NumRecords : DownloadTry(r)
    \/ \E r \in 1..NumRecords : DownloadGiveUp(r)
    \/ DownloadWait

SpecDownload == DownloadInit /\ [][DownloadNext]_vars

-----------------------------------------------------------------------------
\* Unpack, decompressPackage, extractControlArchive, getDataArchiveFileList.

MaxDebs == 2

\* A member of the ar archive: its name, whether uncompr reads it, and the
\* tar archive it holds.
Member(name, readable, tar) == [name |-> name, readable |-> readable, tar |-> tar]

\* A control archive: the stanza of its control file (none when the file is
\* missing) and its other members, name -> contents.
NoStanza == [name |-> 0, version |-> 0, status |-> <<>>]
ControlTar(name, version, scripts) ==
    [stanza |-> [name |-> name, version |-> version, status |-> <<>>], scripts |-> scripts]

\* A data archive: what fs.WalkDir visits, the root first.
DataTar(entries) == <<".">> \o entries

Scripts(tag) == [m \in {"postinst"} |-> <<"script", tag>>]

ControlGz == <<"control.tar", ".gz">>
ControlXz == <<"control.tar", ".xz">>
DataXz == <<"data.tar", ".xz">>
DataPlain == <<"data.tar">>

\* A package file: the contents of debian-binary and the other members in
\* archive order.
Deb(binary, members) == [binary |-> binary, members |-> members]

Debs ==
    LET ctl(n, v) == Member(ControlGz, TRUE, ControlTar(n, v, Scripts(v)))
        bare(n, v) == Member(ControlXz, TRUE, ControlTar(n, v, <<>>))
        data(v) == Member(DataXz, TRUE, DataTar(<<"usr", <<"usr", v>> >>))
        empty == Member(DataPlain, TRUE, DataTar(<<>>))
    IN  {Deb("2.0", <<ctl(1, 1), data(1)>>),
         Deb("2.0", <<ctl(1, 2), empty>>),
         Deb("2.0", <<bare(2, 1), data(2)>>),
         Deb("2.0", <<data(1), bare(2, 2)>>),
         Deb("2.0", <<ctl(1, 1), bare(2, 1), data(1)>>),
         Deb("2.0", <<ctl(2, 1), data(1), empty>>),
         Deb("2.0", <<ctl(1, 1)>>),
         Deb("2.0", <<data(1)>>),
         Deb("2.0", <<Member(<<"control.tgz">>, TRUE, ControlTar(1, 1, <<>>)), data(1)>>),
         Deb("2.0", <<ctl(1, 1), Member(DataXz, FALSE, DataTar(<<>>))>>),
         Deb("2.0", <<Member(ControlGz, TRUE, [stanza |-> NoStanza, scripts |-> <<>>]), data(1)>>),
         Deb("3.0", <<ctl(1, 1), data(1)>>)}

NoMember == Member(<<>>, FALSE, <<>>)

\* The loop over the entries: the last member with each prefix.
RECURSIVE FindArchives(_, _, _)
FindArchives(entries, controlArchive, dataArchive) ==
    IF entries = <<>> THEN [control |-> controlArchive, data |-> dataArchive]
    ELSE IF HasPrefix(Head(entries).name, <<"control.tar">>)
         THEN FindArchives(Tail(entries), Head(entries), dataArchive)
    ELSE IF HasPrefix(Head(entries).name, <<"data.tar">>)
         THEN FindArchives(Tail(entries), controlArchive, Head(entries))
    ELSE FindArchives(Tail(entries), controlArchive, dataArchive)

NotDecompressed == [st |-> "pending", ok |-> FALSE, err |-> "", control |-> <<>>, data |-> <<>>]

DecompressFailed(e) == [st |-> "returned", ok |-> FALSE, err |-> e, control |-> <<>>, data |-> <<>>]

\* decompressPackage: the decompressed control and data archives.
decompressPackage(deb) ==
    LET found == FindArchives(deb.members, NoMember, NoMember)
    IN  IF deb.binary # "2.0" THEN DecompressFailed("unsupported debian package version")
        ELSE IF found.control.name = <<>> THEN DecompressFailed("failed to find control archive")
        ELSE IF found.data.name = <<>> THEN DecompressFailed("failed to find data archive")
        ELSE IF ~found.control.readable THEN DecompressFailed("failed to decompress control archive")
        ELSE IF ~found.data.readable THEN DecompressFailed("failed to decompress data archive")
        ELSE [st |-> "returned", ok |-> TRUE, err |-> "",
              control |-> found.control.tar, data |-> found.data.tar]

\* filepath.Join("var/lib/dpkg/info", fmt.Sprintf("%s.%s", pkg.Name, member)).
InfoPath(name, member) == <<"var/lib/dpkg/info", name, member>>

StatusPath == <<"var/lib/dpkg/status">>

\* The info files extractControlArchive writes for a control archive.
RECURSIVE WriteScripts(_, _, _)
WriteScripts(tree, control, members) ==
    IF members = {} THEN tree
    ELSE LET m == CHOOSE x \in members : TRUE
         IN  WriteScripts(WriteFile(tree, InfoPath(control.stanza.name, m), control.scripts[m]),
                          control, members \ {m})

\* getDataArchiveFileList: every path the walk visits but the root.
getDataArchiveFileList(dataTar) == SelectSeq(dataTar, LAMBDA path : path # ".")

\* strings.Join(filesList, "\n") + "\n".
RECURSIVE JoinLines(_)
JoinLines(filesList) ==
    IF filesList = <<>> THEN <<"\n">>
    ELSE IF Len(filesList) = 1 THEN <<Head(filesList), "\n">>
    ELSE <<Head(filesList), "\n">> \o JoinLines(Tail(filesList))

WithStatus(stanza) == [stanza EXCEPT !.status = <<"install", "ok", "unpacked">>]

notUp == <<dbVars, resVars, pkVars, relVars, ccVars, plVars, dlVars, ldVars,
           usrVars>>

UnpackInit ==
    /\ DBIdle /\ ResIdle /\ PkIdle /\ RelIdle /\ CcIdle /\ PlIdle /\ DlIdle
    /\ LdIdle /\ UsrIdle
    /\ debs \in UNION {[1..n -> Debs] : n \in 1..MaxDebs}
    /\ decompressed = [i \in DOMAIN debs |-> NotDecompressed]
    /\ dpkgDatabaseFS = <<>> /\ statusPackages = <<>>
    /\ unpackPc = "decompress"

\* A decompression worker: decompressPackage and the stores by index.
UnpackDecompress(i) ==
    /\ unpackPc = "decompress" /\ i \in DOMAIN debs /\ decompressed[i].st = "pending"
    /\ decompressed' = [decompressed EXCEPT ![i] = decompressPackage(debs[i])]
    /\ UNCHANGED <<notUp, debs, dpkgDatabaseFS, statusPackages, unpackPc>>

\* g.Wait() and the error return.
UnpackWait ==
    /\ unpackPc = "decompress"
    /\ \A i \in DOMAIN debs : decompressed[i].st = "returned"
    /\ unpackPc' = IF \A i \in DOMAIN debs : decompressed[i].ok THEN "extract" ELSE "failed"
    /\ UNCHANGED <<notUp, debs, decompressed, dpkgDatabaseFS, statusPackages>>

\* One iteration of the extraction loop.
UnpackExtract ==
    /\ unpackPc = "extract" /\ Len(statusPackages) < Len(debs)
    /\ LET i == Len(statusPackages) + 1
           control == decompressed[i].control
           filesList == getDataArchiveFileList(decompressed[i].data)
           info == WriteScripts(dpkgDatabaseFS, control, DOMAIN control.scripts)
       IN  IF control.stanza = NoStanza
           THEN /\ unpackPc' = "failed"
                /\ UNCHANGED <<dpkgDatabaseFS, statusPackages>>
           ELSE /\ statusPackages' = Append(statusPackages, WithStatus(control.stanza))
                /\ dpkgDatabaseFS' =
                       IF Len(filesList) > 0
                       THEN WriteFile(info, InfoPath(control.stanza.name, "list"),
                                      JoinLines(filesList))
                       ELSE info
                /\ UNCHANGED unpackPc
    /\ UNCHANGED <<notUp, debs, decompressed>>

\* deb822.Marshal of the packages into var/lib/dpkg/status.
UnpackStatus ==
    /\ unpackPc = "extract" /\ Len(statusPackages) = Len(debs)
    /\ dpkgDatabaseFS' = WriteFile(dpkgDatabaseFS, StatusPath, statusPackages)
    /\ unpackPc' = "done"
    /\ UNCHANGED <<notUp, debs, decompressed, statusPackages>>

UnpackNext ==
    \/ \E i \in 1..MaxDebs : UnpackDecompress(i)
    \/ UnpackWait
    \/ UnpackExtract
    \/ UnpackStatus

SpecUnpack == UnpackInit /\ [][UnpackNext]_vars

-----------------------------------------------------------------------------
\* loadPackageDB: one goroutine per component fetches the component's
\* package list, raises the shared sourceDateEpoch to the list's
\* Last-Modified instant, and adds the list to the shared database.

NumComponents == 2

\* Instants, as whole numbers; 0 is the zero time.Time.
ZeroTime == 0
Instants == {ZeroTime, 1, 2}

\* The package lists of the components of a recipe: two providers of awk (4)
\* of priority required, a package that depends on awk, and two lists that
\* share nothing with them.
ComponentLists ==
    {<<Prioritised(Gawk, "required")>>, <<Prioritised(Mawk, "required")>>,
     <<SomePkg>>, <<C1>>}

\* What component.Packages returns: (packageList, lastUpdated, nil), or an
\* error.
PackagesResults ==
    {[ok |-> TRUE, packages |-> l, lastUpdated |-> t] :
        l \in ComponentLists, t \in Instants}
    \cup {[ok |-> FALSE, packages |-> <<>>, lastUpdated |-> ZeroTime]}

\* lastUpdated.After(sourceDateEpoch)
After(t, u) == t > u

\* The errgroup's context is cancelled: a goroutine has returned an error.
LoadCancelled == \E u \in DOMAIN ldStage : ldStage[u] = "failed"

notLd == <<resVars, pkVars, relVars, ccVars, plVars, dlVars, upVars, usrVars>>

LoadInit ==
    /\ DBIdle /\ ResIdle /\ PkIdle /\ RelIdle /\ CcIdle /\ PlIdle
    /\ DlIdle /\ UpIdle /\ UsrIdle
    /\ componentPackages \in [1..NumComponents -> PackagesResults]
    /\ ldStage = [t \in 1..NumComponents |-> "packages"]
    /\ sourceDateEpoch = ZeroTime
    /\ ldPc = "running" /\ ldReturned = <<>>

\* component.Packages(ctx) returns; once the context is cancelled the
\* request may fail with the context's error.
LoadPackages(t) ==
    /\ ldPc = "running" /\ ldStage[t] = "packages"
    /\ \E failed \in {~componentPackages[t].ok} \cup
                     (IF LoadCancelled THEN {TRUE} ELSE {}) :
           ldStage' = [ldStage EXCEPT ![t] = IF failed THEN "failed" ELSE "compare"]
    /\ UNCHANGED <<notLd, dbVars, componentPackages, sourceDateEpoch, ldPc, ldReturned>>

\* The read of sourceDateEpoch in the if condition; no lock is held.
LoadCompare(t) ==
    /\ ldPc = "running" /\ ldStage[t] = "compare"
    /\ ldStage' = [ldStage EXCEPT ![t] =
           IF After(componentPackages[t].lastUpdated, sourceDateEpoch)
           THEN "assign" ELSE "addAll"]
    /\ UNCHANGED <<notLd, dbVars, componentPackages, sourceDateEpoch, ldPc, ldReturned>>

\* The write sourceDateEpoch = lastUpdated; no lock is held.
LoadAssign(t) ==
    /\ ldPc = "running" /\ ldStage[t] = "assign"
    /\ sourceDateEpoch' = componentPackages[t].lastUpdated
    /\ ldStage' = [ldStage EXCEPT ![t] = "addAll"]
    /\ UNCHANGED <<notLd, dbVars, componentPackages, ldPc, ldReturned>>

\* packageDB.AddAll(componentPackages), as a whole under the write lock.
LoadAddAll(t) ==
    /\ ldPc = "running" /\ ldStage[t] = "addAll"
    /\ db' = DBAddAll(db, componentPackages[t].packages)
    /\ live' = live \cup {Handle(componentPackages[t].packages[i]) :
                             i \in DOMAIN componentPackages[t].packages}
    /\ ldStage' = [ldStage EXCEPT ![t] = "done"]
    /\ UNCHANGED <<notLd, componentPackages, sourceDateEpoch, ldPc, ldReturned>>

\* g.Wait() and the return.
LoadWait ==
    /\ ldPc = "running"
    /\ \A t \in DOMAIN ldStage : ldStage[t] \in {"done", "failed"}
    /\ ldPc' = "returned"
    /\ ldReturned' =
           IF LoadCancelled
           THEN [ok |-> FALSE, packageDB |-> <<>>, sourceDateEpoch |-> ZeroTime]
           ELSE [ok |-> TRUE, packageDB |-> db, sourceDateEpoch |-> sourceDateEpoch]
    /\ UNCHANGED <<notLd, dbVars, componentPackages, ldStage, sourceDateEpoch>>

LoadNext ==
    \/ \E t \in 1..NumComponents : LoadPackages(t)
    \/ \E t \in 1..NumComponents : LoadCompare(t)
    \/ \E t \in 1..NumComponents : LoadAssign(t)
    \/ \E t \in 1..NumComponents : LoadAddAll(t)
    \/ LoadWait

SpecLoad == LoadInit /\ [][LoadNext]_vars

-----------------------------------------------------------------------------
\* Second stage provisioning: CreateOrUpdateGroup and CreateOrUpdateUser
\* rewrite /etc/group, /etc/gshadow, /etc/passwd and /etc/shadow.  A file is
\* the sequence of its lines, a line the record of its fields.

systemUIDMin == 100
userUIDMin == 1000
userUIDMax == 60000
systemGIDMin == 100
userGIDMin == 1000
userGIDMax == 60000

\* The names validNameRegexp accepts, among the names used here.
ValidNames == {"testgroup", "sudo", "testuser", "user1", "user2", "root"}

NoFile == [exists |-> FALSE, lines |-> <<>>]
File(lines) == [exists |-> TRUE, lines |-> lines]

Group(name, gid, system, members) ==
    [Name |-> name, GID |-> gid, System |-> system, Members |-> members]

\* The zero Group a map lookup gives for a missing key.
ZeroGroup == Group("", 0, FALSE, <<>>)

\* A reference to a group in User.Groups: a group name or, when
\* strconv.Atoi accepts it, a gid.
ByName(name) == [numeric |-> FALSE, name |-> name, id |-> 0]
ByID(id) == [numeric |-> TRUE, name |-> "", id |-> id]

RECURSIVE deduplicate(_)
deduplicate(slice) ==
    IF slice = <<>> THEN <<>>
    ELSE LET front == deduplicate(SubSeq(slice, 1, Len(slice) - 1))
             last == slice[Len(slice)]
         IN  IF \E i \in DOMAIN front : front[i] = last
             THEN front ELSE Append(front, last)

\* The files as one value.
UserFiles ==
    [group |-> groupFile, gshadow |-> groupShadowFile, passwd |-> passwdFile,
     shadow |-> shadowFile, backups |-> backupFiles]

\* The lines with every line of the given name replaced by the entry, or
\* with the entry appended when no line has the name.
UpdateLines(lines, name, entry) ==
    IF \E i \in DOMAIN lines : lines[i].name = name
    THEN [i \in DOMAIN lines |-> IF lines[i].name = name THEN entry ELSE lines[i]]
    ELSE Append(lines, entry)

\* loadGroups: the groups by gid; a later line of a gid replaces an earlier.
loadGroups(lines) ==
    [g \in {lines[i].gid : i \in DOMAIN lines} |->
        LET last == CHOOSE i \in DOMAIN lines :
                        /\ lines[i].gid = g
                        /\ \A j \in DOMAIN lines : lines[j].gid = g => j <= i
        IN  Group(lines[last].name, g, g < userGIDMin, lines[last].members)]

\* The first id from min up to max that is not in use, or 0 with an error.
RECURSIVE NextFreeID(_, _, _)
NextFreeID(id, max, used) ==
    IF id > max THEN 0
    ELSE IF id \notin used THEN id
    ELSE NextFreeID(id + 1, max, used)

getNextFreeGID(lines, system) ==
    NextFreeID(IF system THEN systemGIDMin ELSE userGIDMin, userGIDMax,
               DOMAIN loadGroups(lines))

getNextFreeUID(lines, system) ==
    NextFreeID(IF system THEN systemUIDMin ELSE userUIDMin, userUIDMax,
               {lines[i].uid : i \in DOMAIN lines})

\* What a call gives: the files as it leaves them, and its error.
Returned(f, error) == [files |-> f, err |-> error]

updateGroupFile(f, group) ==
    [f EXCEPT !.backups.group = File(f.group),
              !.group = UpdateLines(f.group, group.Name,
                  [name |-> group.Name, gid |-> group.GID,
                   members |-> deduplicate(group.Members)])]

updateGroupShadowFile(f, group) ==
    IF ~f.gshadow.exists THEN f
    ELSE [f EXCEPT !.backups.gshadow = f.gshadow,
                   !.gshadow.lines = UpdateLines(f.gshadow.lines, group.Name,
                       [name |-> group.Name,
                        members |-> deduplicate(group.Members)])]

CreateOrUpdateGroup(f, group) ==
    IF group.Name \notin ValidNames THEN Returned(f, "invalid group name")
    ELSE LET gid == IF group.GID = 0
                    THEN getNextFreeGID(f.group, group.System)
                    ELSE group.GID
         IN  IF gid = 0 THEN Returned(f, "no available GID")
             ELSE LET g == [group EXCEPT !.GID = gid]
                  IN  Returned(updateGroupShadowFile(updateGroupFile(f, g), g), "")

\* lookupGroup of CreateOrUpdateUser, on the groups loaded at its start.
lookupGroup(groups, ref) ==
    IF ref.numeric
    THEN [found |-> TRUE,
          group |-> IF ref.id \in DOMAIN groups THEN groups[ref.id] ELSE ZeroGroup]
    ELSE IF \E g \in DOMAIN groups : groups[g].Name = ref.name
    THEN [found |-> TRUE,
          group |-> groups[CHOOSE g \in DOMAIN groups : groups[g].Name = ref.name]]
    ELSE [found |-> FALSE, group |-> ZeroGroup]

updatePasswdFile(f, user, primaryGroupID) ==
    [f EXCEPT !.backups.passwd = File(f.passwd),
              !.passwd = UpdateLines(f.passwd, user.Name,
                  [name |-> user.Name, uid |-> user.UID, gid |-> primaryGroupID,
                   home |-> user.HomeDir, shell |-> user.Shell])]

\* The shadow entry holds "!" or a bcrypt hash, which has a fresh salt.
updateShadowFile(f, user, salt) ==
    [f EXCEPT !.backups.shadow = f.shadow,
              !.shadow.lines = UpdateLines(f.shadow.lines, user.Name,
                  [name |-> user.Name,
                   hash |-> IF user.Password = "" THEN <<"!">>
                            ELSE <<"$2a$10", user.Password, salt>>])]

\* The loop over user.Groups: the user is appended to the members of each
\* group, which is written back with CreateOrUpdateGroup.
RECURSIVE AddToGroups(_, _, _, _)
AddToGroups(f, groups, refs, name) ==
    IF refs = <<>> THEN Returned(f, "")
    ELSE LET l == lookupGroup(groups, Head(refs))
         IN  IF ~l.found THEN Returned(f, "failed to lookup group")
             ELSE LET r == CreateOrUpdateGroup(f,
                               [l.group EXCEPT !.Members = Append(@, name)])
                  IN  IF r.err # "" THEN Returned(r.files, "failed to update group")
                      ELSE AddToGroups(r.files, groups, Tail(refs), name)

CreateOrUpdateUser(f, user, salt) ==
    IF user.Name \notin ValidNames THEN Returned(f, "invalid user name")
    ELSE IF Len(user.Groups) = 0 THEN Returned(f, "must belong to at least one group")
    ELSE LET groups == loadGroups(f.group)
             primaryGroup == lookupGroup(groups, user.Groups[1])
             uid == IF user.UID = 0
                    THEN getNextFreeUID(f.passwd, user.System)
                    ELSE user.UID
             u == [user EXCEPT !.UID = uid]
             withPasswd == updatePasswdFile(f, u, primaryGroup.group.GID)
         IN  IF ~primaryGroup.found THEN Returned(f, "failed to lookup primary group")
             ELSE IF uid = 0 THEN Returned(f, "no available UID")
             ELSE IF ~f.shadow.exists /\ user.Password # ""
             THEN Returned(withPasswd, "failed to update shadow")
             ELSE AddToGroups(IF f.shadow.exists
                              THEN updateShadowFile(withPasswd, u, salt)
                              ELSE withPasswd,
                              groups, user.Groups, user.Name)

\* The calls a recipe makes.
NumSalts == 2

NumProvisions == 2

GroupCalls ==
    {Group(n, gid, sys, m) :
        n \in {"testgroup", "sudo"}, gid \in {0, 27},
        sys \in BOOLEAN, m \in {<<>>, <<"user1", "user1">>}}
    \cup {Group("test:group", 0, FALSE, <<>>)}

UserCalls ==
    {[Name |-> "testuser", UID |-> uid, Groups |-> gs, HomeDir |-> "/home/testuser",
      Shell |-> "/bin/bash", Password |-> pw, System |-> sys] :
        uid \in {0, 1000}, sys \in {FALSE}, pw \in {"", "testpassword"},
        gs \in {<<>>, <<ByName("testgroup")>>, <<ByName("testgroup"), ByName("sudo")>>,
                <<ByID(27)>>, <<ByID(5)>>}}

NoBackups == [group |-> NoFile, gshadow |-> NoFile, passwd |-> NoFile, shadow |-> NoFile]

notUsr == <<dbVars, resVars, pkVars, relVars, ccVars, plVars, dlVars, upVars, ldVars>>

\* The reference files: root and sudo, with or without the shadow files.
UsersInit ==
    /\ DBIdle /\ ResIdle /\ PkIdle /\ RelIdle /\ CcIdle /\ PlIdle
    /\ DlIdle /\ UpIdle /\ LdIdle
    /\ groupFile = <<[name |-> "root", gid |-> 0, members |-> <<>>],
                     [name |-> "sudo", gid |-> 27, members |-> <<>>]>>
    /\ groupShadowFile \in
           {NoFile, File(<<[name |-> "root", members |-> <<>>],
                           [name |-> "sudo", members |-> <<>>]>>)}
    /\ passwdFile = <<[name |-> "root", uid |-> 0, gid |-> 0,
                       home |-> "/root", shell |-> "/bin/bash"]>>
    /\ shadowFile \in {NoFile, File(<<[name |-> "root", hash |-> <<"!">>]>>)}
    /\ backupFiles = NoBackups
    /\ usrCall = <<>>

\* The files after a call, and the call on record; a recipe makes
\* NumProvisions calls.
Provisioned(kind, arg, r) ==
    /\ groupFile' = r.files.group
    /\ groupShadowFile' = r.files.gshadow
    /\ passwdFile' = r.files.passwd
    /\ shadowFile' = r.files.shadow
    /\ backupFiles' = r.files.backups
    /\ usrCall' = Append(usrCall, [kind |-> kind, arg |-> arg, err |-> r.err])
    /\ UNCHANGED notUsr

ProvisionGroup(group) ==
    /\ Len(usrCall) < NumProvisions
    /\ Provisioned("group", group, CreateOrUpdateGroup(UserFiles, group))

ProvisionUser(user) ==
    /\ Len(usrCall) < NumProvisions
    /\ \E salt \in 1..NumSalts :
           Provisioned("user", user, CreateOrUpdateUser(UserFiles, user, salt))

UsersNext ==
    \/ \E group \in GroupCalls : ProvisionGroup(group)
    \/ \E user \in UserCalls : ProvisionUser(user)

SpecUsers == UsersInit /\ [][UsersNext]_vars

-----------------------------------------------------------------------------
\* Properties of the database.

Range(s) == {s[i] : i \in DOMAIN s}

VersionKeys == RealVersions \cup {ZeroVersion}

\* The real records of the tree that list the key (n, v) in their provides.
ProvidersOf(tree, n, v) ==
    {Handle(r) : r \in {x \in Range(tree) :
        /\ ~x.isVirtual
        /\ \E possi \in Range(Possibilities(x.provides)) :
               Handle(VirtualPkg(possi)) = Key(n, v)}}

VirtualAt(tree, n, v) ==
    {x \in Range(tree) : x.isVirtual /\ Handle(x) = Key(n, v)}

NoDuplicates(s) == \A i, j \in DOMAIN s : s[i] = s[j] => i = j

\* C1: after any sequence of Add / AddAll / Remove, a virtual record with
\* key (n, v) exists iff some real record in the DB provides (n, v), and its
\* providers are exactly those real records, each once.
C1_VirtualMirror ==
    \A n \in Names, v \in VersionKeys :
        /\ (VirtualAt(db, n, v) # {}) <=> (ProvidersOf(db, n, v) # {})
        /\ \A x \in VirtualAt(db, n, v) :
               /\ Range(x.providers) = ProvidersOf(db, n, v)
               /\ NoDuplicates(x.providers)

NamedRecords(tree, n) == SelectSeq(tree, LAMBDA x : x.name = n)

Ascending(s) == \A i, j \in DOMAIN s : i < j => s[i].version < s[j].version

\* C6: Get(n) is exactly the records named n, version ascending; StrictlyEarlier,
\* ExactlyEqual and StrictlyLater partition it; EarlierOrEqual and LaterOrEqual
\* are the unions with ExactlyEqual.
C6_TotalOrderQueries ==
    \A n \in Names, v \in VersionKeys :
        LET get == DBGet(db, n)
            se == Range(StrictlyEarlier(db, n, v))
            ee == Range(ExactlyEqual(db, n, v))
            sl == Range(StrictlyLater(db, n, v))
        IN  /\ get = NamedRecords(db, n)
            /\ Ascending(get)
            /\ se \cap ee = {} /\ se \cap sl = {} /\ ee \cap sl = {}
            /\ se \cup ee \cup sl = Range(get)
            /\ Range(EarlierOrEqual(db, n, v)) = se \cup ee
            /\ Range(LaterOrEqual(db, n, v)) = ee \cup sl

\* C7: Add(p) then Remove(p), for a real p whose key is not in the DB,
\* gives back the DB as it was.
C7_AddRemoveRoundTrip ==
    \A p \in Catalogue :
        ~TreeHas(db, p) => DBRemove(DBAdd(db, p), p) = db

\* The URLs of urls that are not in existing, each once, in order of first
\* occurrence.
NewURLs(existing, urls) ==
    LET keep == {i \in DOMAIN urls :
                    /\ urls[i] \notin Range(existing)
                    /\ \A j \in DOMAIN urls : j < i => urls[j] # urls[i]}
        F[i \in 0..Len(urls)] ==
            IF i = 0 THEN <<>>
            ELSE IF i \in keep THEN Append(F[i - 1], urls[i]) ELSE F[i - 1]
    IN  F[Len(urls)]

\* C8: Add(p) merges p's URLs into the record already under p's key, or
\* inserts p unchanged, and changes no real record under another key.
C8_AddMerges ==
    \A p \in Catalogue :
        LET after == DBAdd(db, p)
            i == TreeIndex(db, p)
            under == {x \in Range(after) : Handle(x) = Handle(p)}
        IN  /\ Cardinality(under) = 1
            /\ Len(SelectSeq(after, LAMBDA x : Handle(x) = Handle(p))) = 1
            /\ \A x \in under :
                   IF i # 0
                   THEN x.urls = db[i].urls \o NewURLs(db[i].urls, p.urls)
                   ELSE x = p
            /\ \A r \in Range(db) :
                   (~r.isVirtual /\ Handle(r) # Handle(p)) => r \in Range(after)

\* C9: AddAll(ps) twice leaves the same DB as AddAll(ps) once.
C9_AddAllIdempotent ==
    \A ps \in Batches :
        DBAddAll(DBAddAll(db, ps), ps) = DBAddAll(db, ps)

\* A DB built by one AddAll of two stanzas of the same package read from
\* different mirrors: the second was merged into the first.
C9_Witness ==
    \E ps \in Batches :
        /\ Len(ps) = 2 /\ ps[1] # ps[2] /\ Handle(ps[1]) = Handle(ps[2])
        /\ db = DBAddAll(NewPackageDB, ps)
        /\ \E x \in Range(db) : ~x.isVirtual /\ Len(x.urls) > Len(ps[1].urls)
        /\ \E x \in Range(db) : x.isVirtual /\ x.providers # <<>>

\* The keys of live in (name, version) order.
RECURSIVE SortedKeys(_)
SortedKeys(keys) ==
    IF keys = {} THEN <<>>
    ELSE LET least == CHOOSE k \in keys : \A o \in keys : ~Less(o, k)
         IN  <<least>> \o SortedKeys(keys \ {least})

Handles(s) == [i \in DOMAIN s |-> Handle(s[i])]

IsPrefix(s, t) == Len(s) <= Len(t) /\ \A i \in DOMAIN s : s[i] = t[i]

\* C10: Len is the number of real keys added and not since removed; ForEach
\* visits exactly those records, in key order, never a virtual one, and stops
\* at the first callback error, returning it.
C10_LenAndForEach ==
    /\ DBLen(db) = Cardinality(live)
    /\ Handles(ForEachVisited(db, {})) = SortedKeys(live)
    /\ ~ForEachError(db, {})
    /\ \A k \in live :
           LET seen == ForEachVisited(db, {k})
           IN  /\ IsPrefix(Handles(seen), SortedKeys(live))
               /\ \A x \in Range(seen) : ~x.isVirtual
               /\ seen # <<>> /\ Handle(seen[Len(seen)]) = k
               /\ ForEachError(db, {k})


-----------------------------------------------------------------------------
\* Properties of Resolve.

RealNamed(tree, n) == {x \in Range(tree) : ~x.isVirtual /\ x.name = n}

Pinned(n) == \E i \in DOMAIN include : include[i].pinned /\ include[i].name = n

\* C2: when Resolve succeeds, every include entry n=v has its real record
\* (n, v) in the selected DB, and no other real record named n is selected.
C2_PinPreserved ==
    Succeeded =>
        \A i \in DOMAIN include :
            include[i].pinned =>
                /\ \E x \in RealNamed(selectedDB, include[i].name) :
                       x.version = include[i].version
                /\ \A x \in RealNamed(selectedDB, include[i].name) :
                       x.version = include[i].version

Newest(records) == {x \in records : \A y \in records : y.version <= x.version}

\* C3: for a name no include entry pins, selection leaves exactly the
\* greatest-version real candidate of that name, and a successful Resolve
\* returns no other real record of that name.
C3_NewestWins ==
    \A n \in Names :
        ~Pinned(n) =>
            /\ (pc = "reprune" /\ passes = 0 /\ RealNamed(candidateDB, n) # {}) =>
                   /\ Cardinality(RealNamed(selectedDB, n)) = 1
                   /\ RealNamed(selectedDB, n) = Newest(RealNamed(candidateDB, n))
            /\ Succeeded =>
                   RealNamed(selectedDB, n) \subseteq Newest(RealNamed(candidateDB, n))

EntryMet(tree, e) ==
    \E x \in RealNamed(tree, e.name) : e.pinned => x.version = e.version

\* C4: when Resolve succeeds, every include entry is met by a real record
\* of the selected DB; when the final check is reached and some entry is
\* not met, Resolve fails with PinDroppedDuringResolution.
C4_IncludesSelected ==
    (pc = "done" /\ err \in {"", "PinDroppedDuringResolution"}) =>
        ((err = "") <=> \A i \in DOMAIN include : EntryMet(selectedDB, include[i]))

\* C5: when Resolve succeeds, no real record of the selected DB has an
\* excluded name.
C5_ExcludedNeverSelected ==
    Succeeded =>
        \A n \in ExcludedNames(exclude) : RealNamed(selectedDB, n) = {}

\* The records the full database holds under the keys of V's providers.
ExistingProviders(V) ==
    {x \in Range(packageDB) :
        \E i \in DOMAIN V.providers : Handle(x) = V.providers[i]}

InCandidates(x) == \E y \in Range(candidateDB) : Handle(y) = Handle(x)

\* The records that depend, by a relation with one unversioned possibility,
\* on the name of V.
DependOn(tree, V) ==
    {x \in Range(tree) : ~x.isVirtual /\ x.depends = << <<Possi(V.name)>> >>}

\* C11: for a virtual record V with existing providers P, resolution uses
\* the only provider when |P| = 1; when |P| > 1 it uses a provider that is
\* already a candidate if there is one, else one of priority required if
\* there is one; and a record depending on V gets that provider as its
\* dependency.  With awk provided by mawk (required) and gawk (optional),
\* include = [some-pkg] selects mawk and not gawk.
C11_VirtualResolution ==
    /\ \A V \in {x \in Range(packageDB) : x.isVirtual} :
           LET P == ExistingProviders(V)
               r == resolveVirtualPackage(packageDB, candidateDB, V)
               used == r.pkgs[1]
           IN  /\ Cardinality(P) = 1 => r.ok /\ used \in P
               /\ (Cardinality(P) > 1 /\ \E x \in P : InCandidates(x)) =>
                      r.ok /\ used \in P /\ InCandidates(used)
               /\ (Cardinality(P) > 1 /\ (\A x \in P : ~InCandidates(x))
                      /\ \E x \in P : x.priority = "required") =>
                      r.ok /\ used \in P /\ used.priority = "required"
               /\ r.ok => \A x \in DependOn(packageDB, V) :
                      getDependencies(packageDB, candidateDB, x) = Resolved(<<used>>)
    /\ (pc = "done" /\ include = <<Entry(7)>> /\ exclude = <<>>
          /\ {x \in Range(packageDB) : ~x.isVirtual}
                 = {SomePkg, Prioritised(Mawk, "required"), Prioritised(Gawk, "optional")}) =>
           /\ err = ""
           /\ RealNamed(selectedDB, 6) # {} /\ RealNamed(selectedDB, 5) = {}

C11_Witness ==
    /\ pc = "done" /\ err = "" /\ include = <<Entry(7)>> /\ exclude = <<>>
    /\ Prioritised(Mawk, "required") \in Range(packageDB)
    /\ Prioritised(Gawk, "optional") \in Range(packageDB)
    /\ packageDB[1].isVirtual /\ Handle(packageDB[1].providers[1]) = Handle(Gawk)
    /\ RealNamed(selectedDB, 6) # {} /\ RealNamed(selectedDB, 5) = {}

\* An included record depends on a virtual name with several existing
\* providers, none a candidate and none of priority required.
AmbiguousDependency ==
    \E V \in {x \in Range(packageDB) : x.isVirtual} :
        LET P == ExistingProviders(V)
        IN  /\ Cardinality(P) > 1
            /\ \A x \in P : ~InCandidates(x) /\ x.priority # "required"
            /\ \E i \in DOMAIN include, x \in DependOn(packageDB, V) :
                   x.name = include[i].name

\* C12: when an included record depends on a virtual name with several
\* providers, none a candidate and none required, Resolve fails with the
\* error AmbiguousVirtual, not with UnsatisfiableDependency.
C12_AmbiguousVirtual ==
    (pc = "done" /\ err # "PackageNotFound" /\ AmbiguousDependency) =>
        err = "AmbiguousVirtual"

\* C13: a second call of Resolve on the same database with the same include
\* and exclude lists fails if the first failed, and otherwise returns a
\* selected database with exactly the same records.
C13_Deterministic ==
    (run = 2 /\ pc = "done") => Outcome = firstOutcome

C13_Witness ==
    /\ run = 2 /\ pc = "done" /\ firstOutcome.ok
    /\ Cardinality(DOMAIN requestedPackages) = 2
    /\ Len(selectedDB) > 1

-----------------------------------------------------------------------------
\* Properties of Component.Packages.

\* The Release lists, for the file name, the SHA-256 of the bytes read.
HashListed(name) ==
    /\ name \in DOMAIN sha256Sums
    /\ ToUpper(sha256Sums[name]) = ToUpper(HexEncode(Sha256(mirror[name].body.read)))

\* C14: Packages returns records only from a candidate whose bytes, as
\* read, have the SHA-256 the Release lists for its file name; a candidate
\* with another hash, a malformed hash or no hash entry is never returned.
C14_HashVerified ==
    /\ pkPc # "returned" => packages = <<>>
    /\ pkPc = "returned" =>
           LET name == tried[Len(tried)]
           IN  /\ HashListed(name)
               /\ Len(sha256Sums[name]) = 2 * HashSize
               /\ \A i \in DOMAIN packages :
                      Decoded(packages[i]) = mirror[name].body.stanzas[i]

C14_Witness ==
    /\ pkPc = "returned" /\ tried = <<"Packages.xz", "Packages.gz">>
    /\ mirror["Packages.xz"] = Response(TRUE, 200, BodyB)
    /\ errs = << <<"Packages.xz", "failed to verify">> >>
    /\ mirror["Packages.gz"].body = BodyAPadded
    /\ sha256Sums["Packages.gz"] = ToUpper(HexEncode(Sha256(BodyA.file)))
    /\ Len(packages) = 1

\* Every step succeeds for the candidate: request, status, decompression,
\* decoding, hash verification.
CandidateSucceeds(name) ==
    /\ mirror[name].sent /\ mirror[name].status = 200
    /\ mirror[name].body.decompresses /\ mirror[name].body.decodes
    /\ HashListed(name)

\* C16: the candidates are tried in the order Packages.xz, Packages.gz,
\* Packages; a candidate is tried only after every earlier one failed at
\* some step; the records of the first candidate for which every step
\* succeeds are returned and no further candidate is tried; the call fails,
\* with one joined error per candidate, only when all three failed.
C16_CandidateOrder ==
    /\ IsPrefix(tried, <<"Packages.xz", "Packages.gz", "Packages">>)
    /\ \A i \in DOMAIN tried : i < Len(tried) => ~CandidateSucceeds(tried[i])
    /\ (pkPc = "loop" /\ tried # <<>>) => ~CandidateSucceeds(tried[Len(tried)])
    /\ pkPc = "returned" =>
           /\ CandidateSucceeds(tried[Len(tried)])
           /\ Len(packages) = Len(mirror[tried[Len(tried)]].body.stanzas)
           /\ Len(errs) = Len(tried) - 1
    /\ pkPc = "failed" =>
           /\ \A name \in FileNames : ~CandidateSucceeds(name)
           /\ [i \in DOMAIN errs |-> errs[i][1]]
                  = <<"Packages.xz", "Packages.gz", "Packages">>
    /\ \A i \in DOMAIN errs : errs[i][1] = tried[i]

C16_Witness ==
    /\ pkPc = "returned" /\ tried = <<"Packages.xz", "Packages.gz">>
    /\ mirror["Packages.xz"].status = 404
    /\ CandidateSucceeds("Packages")
    /\ packages = WithURL(mirror["Packages.gz"].body.stanzas)

-----------------------------------------------------------------------------
\* Properties of Source.Components.

\* C15: Components returns a component list only for an InRelease document
\* with a signer verified against the keyring; a decoder without a signer
\* makes the call fail with ReleaseUnsigned and return no component, and
\* with an empty keyring the call always fails.
C15_UnsignedRejected ==
    /\ components # <<>> =>
           /\ relErr = ""
           /\ signer \in keyring
           /\ inRelease.signedBy = signer /\ inRelease.intact
    /\ (relPc \in {"decode", "done"} /\ signer = NoSigner) =>
           relPc = "done" /\ relErr = "ReleaseUnsigned" /\ components = <<>>
    /\ (relPc = "done" /\ keyring = {}) => relErr # "" /\ components = <<>>

C15_Witness ==
    /\ relPc = "done" /\ relErr = "ReleaseUnsigned" /\ keyring = {}
    /\ inRelease.status = 200 /\ inRelease.signedBy \in Keys /\ inRelease.intact
    /\ inRelease.decodes /\ Len(inRelease.components) = 2
    /\ Len(inRelease.architectures) = 3

-----------------------------------------------------------------------------
\* Properties of the database under concurrent use.

\* Every real record of the tree that provides a name has the matching
\* virtual record, listing it as a provider.
Mirrored(tree) ==
    \A x \in Range(tree) :
        ~x.isVirtual =>
            \A i \in DOMAIN Possibilities(x.provides) :
                \E v \in Range(tree) :
                    /\ v.isVirtual
                    /\ Compare(v, VirtualPkg(Possibilities(x.provides)[i])) = 0
                    /\ \E k \in DOMAIN v.providers : v.providers[k] = Handle(x)

\* C17: a query made while batches are being added sees the tree as it was
\* between two AddAll calls, so every key with its merge applied or absent,
\* and never a real record providing a name without the matching virtual
\* record listing it.
C17_ReadersSeeWholeBatches ==
    \A r \in DOMAIN observed :
        observed[r].any =>
            /\ observed[r].seen = observed[r].at
            /\ Mirrored(observed[r].seen)

\* The two halves of addPackage, one after the other, are addPackage.
AddPackageInTwoSteps ==
    \A pkg \in Catalogue :
        ProvidePackage(InsertPackage(db, pkg), pkg) = addPackage(db, pkg)



-----------------------------------------------------------------------------
\* Properties of the build pipeline.

Started(p) == \E t \in Tasks : tasks[p][t].st # "pending"

Quiesced(p) == \A t \in Tasks : tasks[p][t].st = "returned" /\ tasks[p][t].ok

PhaseIndex(p) == CHOOSE k \in DOMAIN PhaseOrder : PhaseOrder[k] = p

\* Every phase before p of the current platform has succeeded.
EarlierSucceeded(p) ==
    \A k \in 1..(PhaseIndex(p) - 1) : <<platform, PhaseOrder[k]>> \in succeeded

\* Every bulk phase before p of the current platform has quiesced.
EarlierQuiesced(p) ==
    \A k \in 1..(PhaseIndex(p) - 1) : PhaseOrder[k] \in BulkPhases => Quiesced(PhaseOrder[k])

\* C18: for each platform the phases run in the order ingestion, resolve,
\* download, unpack; a phase begins only after every task of the previous
\* phase has returned and that phase succeeded (no ingestion task runs
\* while Resolve reads the database); the image build is invoked only after
\* all four phases succeeded for every platform; a failed phase hands no
\* artifact path to a later phase.
C18_PhaseOrder ==
    /\ \A p \in BulkPhases : Started(p) => EarlierSucceeded(p) /\ EarlierQuiesced(p)
    /\ phase = "resolve" => Quiesced("ingest") /\ <<platform, "ingest">> \in succeeded
    /\ phase \in {"download", "unpack"} => EarlierSucceeded(phase)
    /\ phase = "extract" => EarlierSucceeded("unpack") /\ Quiesced("unpack")
    /\ \A pl \in 1..NumPlatforms, k \in DOMAIN PhaseOrder :
           <<pl, PhaseOrder[k]>> \in succeeded =>
               /\ pl <= platform
               /\ \A j \in 1..(k - 1) : <<pl, PhaseOrder[j]>> \in succeeded
               /\ \A q \in 1..(pl - 1), j \in DOMAIN PhaseOrder :
                      <<q, PhaseOrder[j]>> \in succeeded
    /\ phase \in {"build", "done"} =>
           /\ \A pl \in 1..NumPlatforms, k \in DOMAIN PhaseOrder :
                  <<pl, PhaseOrder[k]>> \in succeeded
           /\ Len(platformOpts) = NumPlatforms
    /\ packagePaths # <<>> => <<platform, "download">> \in succeeded
    /\ Started("unpack") => packagePaths = SortPaths([t \in Tasks |-> PackagePath(t)])
    /\ \A i \in DOMAIN platformOpts :
           /\ platformOpts[i].platform = i
           /\ <<i, "unpack">> \in succeeded
           /\ Len(platformOpts[i].packagePaths) = NumTasks

C18_Witness ==
    /\ phase = "done"
    /\ Len(platformOpts) = NumPlatforms
    /\ \A pl \in 1..NumPlatforms, k \in DOMAIN PhaseOrder :
           <<pl, PhaseOrder[k]>> \in succeeded

\* C19: in each bulk phase, once one task has failed, no sibling task
\* completes another blocking call: it observes the cancellation at its
\* next call and stops.
C19_SiblingsCancelled == afterFailure = {}

\* Where the goroutines take the context of errgroup.WithContext, no call
\* succeeds after a sibling has failed.
CancelledWithContext == \A x \in afterFailure : ~CtxAware(x[2])

\* C20: for every scheduling of the decompression workers, when Unpack
\* succeeds it returns one data-archive path per input, and the path at
\* index i is the data archive decompressed from the input at index i; a
\* worker that has returned has stored its path at its own index.
C20_PathsByIndex ==
    /\ phase = "unpack" =>
           /\ Len(dataArchivePaths) = Len(packagePaths)
           /\ \A i \in Tasks :
                  tasks["unpack"][i].st = "returned" /\ tasks["unpack"][i].ok =>
                      dataArchivePaths[i] = DecompressedDataArchivePath(packagePaths[i])
    /\ \A k \in DOMAIN platformOpts :
           LET o == platformOpts[k]
           IN  /\ Len(o.dataArchivePaths) = Len(o.packagePaths)
               /\ \A i \in DOMAIN o.packagePaths :
                      o.dataArchivePaths[i] = DecompressedDataArchivePath(o.packagePaths[i])

C20_Witness ==
    /\ platformOpts # <<>>
    /\ Len(platformOpts[1].dataArchivePaths) = NumTasks
    /\ platformOpts[1].dataArchivePaths[NumTasks] =
           DecompressedDataArchivePath(platformOpts[1].packagePaths[NumTasks])


-----------------------------------------------------------------------------
\* Properties of the downloader.

\* The body the server gives for the URL has the record's SHA-256.
BodyMatches(r, u) == u.sent /\ HexEncode(Sha256(u.body)) = toDownload[r].sha256

\* The URLs of the attempts made, in order.
URLsTried(w) == [i \in DOMAIN w.tried |-> w.tried[i].url]

\* The attempt was made with a live context and the server gave a body
\* with the record's SHA-256.
AttemptMatches(r, a) == ~a.done /\ BodyMatches(r, a.url)

\* C21: for each selected record the downloader tries the record's URLs one
\* after another in some order; it stops at the first URL whose body has the
\* record's SHA-256 and returns the path of that file, which holds that body;
\* it fails for the record, with one joined error per URL, only after every
\* URL has failed.  When the phase succeeds the result holds one path per
\* selected record, in sorted order.
C21_DownloadRetries ==
    /\ \A r \in 1..NumRecords :
           LET w == workers[r]
               urls == toDownload[r].urls
               n == Len(w.tried)
           IN  /\ \E p \in Shuffle(urls) : URLsTried(w) = SubSeq(p, 1, n)
               /\ \A i \in 1..(n - 1) : ~AttemptMatches(r, w.tried[i])
               /\ w.st = "running" /\ n > 0 => ~AttemptMatches(r, w.tried[n])
               /\ w.st = "returned" /\ w.ok =>
                      /\ n > 0
                      /\ AttemptMatches(r, w.tried[n])
                      /\ Len(SelectSeq(fetchedPaths, LAMBDA p : p = toDownload[r].file)) = 1
                      /\ files[toDownload[r].file] = w.tried[n].url.body
               /\ w.st = "returned" /\ ~w.ok =>
                      /\ n = Len(urls)
                      /\ Len(w.errs) = Len(urls)
                      /\ ~AttemptMatches(r, w.tried[n])
    /\ dlPc = "returned" =>
           /\ Len(dlResult) = NumRecords
           /\ \A r \in 1..NumRecords : \E i \in DOMAIN dlResult : dlResult[i] = toDownload[r].file
           /\ \A i \in 1..(Len(dlResult) - 1) : dlResult[i] <= dlResult[i + 1]

\* The phase has succeeded after a record's first URL failed, with the paths
\* appended out of order.
C21_Witness ==
    /\ dlPc = "returned"
    /\ \E r \in 1..NumRecords : Len(workers[r].tried) = 2
    /\ fetchedPaths # dlResult


-----------------------------------------------------------------------------
\* Properties of the unpacker.

MembersWithPrefix(deb, prefix) ==
    {k \in DOMAIN deb.members : HasPrefix(deb.members[k].name, <<prefix>>)}

\* C22: unpacking a .deb fails unless the archive has exactly one member
\* whose name begins with control.tar and exactly one whose name begins with
\* data.tar.
C22_UniqueMembers ==
    \A i \in DOMAIN debs :
        decompressed[i].st = "returned" /\ decompressed[i].ok =>
            /\ Cardinality(MembersWithPrefix(debs[i], "control.tar")) = 1
            /\ Cardinality(MembersWithPrefix(debs[i], "data.tar")) = 1

\* A package file without a control or without a data member is rejected.
MissingMemberFatal ==
    \A i \in DOMAIN debs :
        decompressed[i].st = "returned" /\ decompressed[i].ok =>
            /\ MembersWithPrefix(debs[i], "control.tar") # {}
            /\ MembersWithPrefix(debs[i], "data.tar") # {}

\* The entries of the i-th input's data archive other than the root.
DataEntries(i) == Tail(decompressed[i].data)

\* One entry per line.
Lines(entries) ==
    [k \in 1..(2 * Len(entries)) |-> IF k % 2 = 1 THEN entries[(k + 1) \div 2] ELSE "\n"]

DpkgDatabase ==
    /\ StatusPath \in DOMAIN dpkgDatabaseFS
    /\ Len(dpkgDatabaseFS[StatusPath]) = Len(debs)
    /\ \A i \in DOMAIN debs :
           LET control == decompressed[i].control
               package == control.stanza.name
           IN  /\ dpkgDatabaseFS[StatusPath][i] =
                      [control.stanza EXCEPT !.status = <<"install", "ok", "unpacked">>]
               /\ \A m \in DOMAIN control.scripts :
                      InfoPath(package, m) \in DOMAIN dpkgDatabaseFS
               /\ InfoPath(package, "list") \in DOMAIN dpkgDatabaseFS <=> DataEntries(i) # <<>>
               /\ DataEntries(i) # <<>> =>
                      dpkgDatabaseFS[InfoPath(package, "list")] = Lines(DataEntries(i))

\* C23: when Unpack succeeds on N inputs the synthetic tree holds
\* var/lib/dpkg/status with N stanzas in input order, each with Status
\* install ok unpacked; for each input an info file <package>.<member> for
\* every member of its control archive other than control; and
\* <package>.list iff its data archive has an entry other than the root,
\* listing those entries one per line.
C23_DpkgDatabase == unpackPc = "done" => DpkgDatabase

\* The same for inputs that are packages of different names.
DpkgDatabaseOfDistinctPackages ==
    (/\ unpackPc = "done"
     /\ \A i, j \in DOMAIN debs :
            decompressed[i].control.stanza.name = decompressed[j].control.stanza.name => i = j)
        => DpkgDatabase


-----------------------------------------------------------------------------
\* Properties of the resolver on repositories with dependencies.

\* The version meets the possibility's constraint under the resolver's
\* operator table, which reads << as <= and >> as >=.
MeetsConstraint(possi, v) ==
    \/ ~possi.hasVersion
    \/ possi.op \in {"<<", "<="} /\ VersionCompare(v, possi.version) <= 0
    \/ possi.op = "=" /\ VersionCompare(v, possi.version) = 0
    \/ possi.op \in {">=", ">>"} /\ VersionCompare(v, possi.version) >= 0

RealIn(tree, n, v) ==
    \E i \in DOMAIN tree :
        ~tree[i].isVirtual /\ tree[i].name = n /\ VersionCompare(tree[i].version, v) = 0

\* The possibility is met by a record of the tree: a real record of its
\* name, or a real provider of a matching virtual record.
MetIn(tree, possi) ==
    \/ \E i \in DOMAIN tree :
           /\ ~tree[i].isVirtual /\ tree[i].name = possi.name
           /\ MeetsConstraint(possi, tree[i].version)
    \/ \E j \in DOMAIN packageDB :
           /\ packageDB[j].isVirtual /\ packageDB[j].name = possi.name
           /\ MeetsConstraint(possi, packageDB[j].version)
           /\ \E k \in DOMAIN packageDB[j].providers :
                  RealIn(tree, packageDB[j].providers[k].name, packageDB[j].providers[k].version)

Relations(pkg) == pkg.preDepends \o pkg.depends

\* C24: if Resolve succeeds with an empty exclude list, the selected
\* database is closed under dependencies: every relation of every selected
\* real record has a possibility met by a selected record.
C24_SelectedClosed ==
    (Succeeded /\ exclude = <<>>) =>
        \A i \in DOMAIN selectedDB :
            ~selectedDB[i].isVirtual =>
                \A r \in DOMAIN Relations(selectedDB[i]) :
                    \E p \in DOMAIN Relations(selectedDB[i])[r] :
                        MetIn(selectedDB, Relations(selectedDB[i])[r][p])

\* The include entry names a record of the database without relations, which
\* no pruning removes.
MetByLeaf(e) ==
    \E j \in DOMAIN packageDB :
        /\ ~packageDB[j].isVirtual /\ packageDB[j].name = e.name
        /\ e.pinned => VersionCompare(packageDB[j].version, e.version) = 0
        /\ Relations(packageDB[j]) = <<>>

\* C25: a candidate with a relation no possibility of which resolves does
\* not make Resolve fail by itself: when every include entry is met by a
\* record that has no relations at all, Resolve does not return the
\* unsatisfiable dependency of another candidate.
C25_UnsatisfiableCandidatePruned ==
    (/\ pc = "done" /\ include # <<>> /\ exclude = <<>>
     /\ \A k \in DOMAIN include : MetByLeaf(include[k]))
        => err # "UnsatisfiableDependency"

\* The candidate set of a possibility: virtual entries replaced by their
\* provider, entries with an excluded name dropped.
CandidateSet(possi) ==
    SelectSeq(ResolvedPackages(packageDB, candidateDB, PossibilityList(packageDB, possi)),
              LAMBDA x : x.name \notin ExcludedNames(exclude))

\* C26: for each relation of an expanded record, every record of the first
\* possibility whose candidate set is non-empty is enqueued, and so a
\* candidate when the closure ends.
C26_FirstOpenPossibility ==
    (pc = "prune" /\ passes = 0) =>
        \A i \in DOMAIN candidateDB :
            (~candidateDB[i].isVirtual /\ ID(candidateDB[i]) \in visited) =>
                \A r \in DOMAIN Relations(candidateDB[i]) :
                    LET rel == Relations(candidateDB[i])[r]
                        open == {p \in DOMAIN rel : CandidateSet(rel[p]) # <<>>}
                    IN  open # {} =>
                            LET first == CHOOSE p \in open : \A q \in open : p <= q
                                set == CandidateSet(rel[first])
                            IN  \A x \in DOMAIN set :
                                    RealIn(candidateDB, set[x].name, set[x].version)

\* A dequeued record that was visited before is dropped and nothing else
\* changes; one that was not is marked visited.
ExpandedOnce ==
    (pc = "closure" /\ queue # <<>>) =>
        IF ID(Head(queue)) \in visited
        THEN /\ queue' = Tail(queue) /\ candidateDB' = candidateDB
             /\ visited' = visited /\ pc' = pc
        ELSE visited' = visited \cup {ID(Head(queue))}

\* A pruning loop has made at most one pass more than it has removed records.
PassesBounded ==
    /\ pc = "prune" => passes + DBLen(candidateDB) <= Cardinality(visited) + 1
    /\ pc \in {"reprune", "verify", "done"} =>
           passes + DBLen(selectedDB) <= DBLen(candidateDB) + 1

\* The position in Resolve, counted from its return.
Rank ==
    CASE pc = "seed" -> 6
      [] pc = "closure" -> 5
      [] pc = "prune" -> 4
      [] pc = "select" -> 3
      [] pc = "reprune" -> 2
      [] pc = "verify" -> 1
      [] OTHER -> 0

\* The most records one expansion can enqueue: one per record of the
\* database for each relation.
Fanout ==
    LET counts == {Len(Relations(packageDB[i])) : i \in DOMAIN packageDB} \cup {0}
    IN  Len(packageDB) * (CHOOSE m \in counts : \A k \in counts : k <= m)

\* What is left to do in the loop Resolve is in: in the closure, the records
\* not yet expanded, each weighed with what it can enqueue, and the queue;
\* in a pruning loop, the records that can still be removed.
Remaining ==
    CASE pc = "closure" ->
             (DBLen(packageDB) - Cardinality(visited)) * (Fanout + 1) + Len(queue)
      [] pc = "prune" -> DBLen(candidateDB)
      [] pc = "reprune" -> DBLen(selectedDB)
      [] OTHER -> 0

\* A step of Resolve moves on to a later position or, staying in a loop,
\* leaves less to do.
Progresses ==
    /\ Remaining >= 0
    /\ \/ Rank' < Rank
       \/ Rank' = Rank /\ Remaining' >= 0 /\ Remaining' < Remaining

\* C27: Resolve terminates, also when dependencies form cycles: every step
\* of a call brings it closer to its return; the closure expands each
\* (name, version) at most once; each pruning loop makes at most (number of
\* candidates + 1) passes.
C27_Terminates ==
    /\ [][(run' = run => Progresses) /\ ExpandedOnce]_vars
    /\ []PassesBounded

\* Resolve has returned on a repository where app depends on lib and lib on
\* app, having expanded both.
C27_Witness ==
    /\ pc = "done" /\ run = 2
    /\ RealIn(packageDB, 2, 1) /\ \E j \in DOMAIN packageDB : packageDB[j] = Lib1Cyclic
    /\ {Handle(AppVersioned), Handle(Lib1Cyclic)} \subseteq visited

-----------------------------------------------------------------------------
\* The database and the epoch loadPackageDB returns.

\* A tree with the URL order of its records left aside.
URLOrderAside(tree) ==
    [i \in DOMAIN tree |-> [tree[i] EXCEPT !.urls = Range(@)]]

\* The component lists added one after the other, in the given order.
RECURSIVE Ingested(_, _)
Ingested(tree, order) ==
    IF order = <<>> THEN tree
    ELSE Ingested(DBAddAll(tree, componentPackages[Head(order)].packages),
                  Tail(order))

\* The orders in which the goroutines can take the write lock.
LockOrders ==
    {o \in [1..NumComponents -> 1..NumComponents] :
        \A i, j \in 1..NumComponents : i # j => o[i] # o[j]}

\* C28: for fixed components the database built by concurrent ingestion is
\* the same for every order in which the AddAll calls take the write lock:
\* the same real records (URL order aside) and, for every virtual record, the
\* same providers in the same order.
C28_SameForEveryOrder ==
    (ldPc = "returned" /\ ldReturned.ok) =>
        \A o \in LockOrders :
            URLOrderAside(ldReturned.packageDB)
                = URLOrderAside(Ingested(NewPackageDB, o))

\* The maximum of the lastUpdated instants of the components.
MaxLastUpdated ==
    CHOOSE m \in {componentPackages[t].lastUpdated : t \in DOMAIN componentPackages} :
        \A t \in DOMAIN componentPackages : componentPackages[t].lastUpdated <= m

\* C29: in every interleaving of the ingestion goroutines the epoch that
\* loadPackageDB returns on success is the maximum of the components'
\* lastUpdated instants.
C29_EpochIsMaximum ==
    (ldPc = "returned" /\ ldReturned.ok) =>
        ldReturned.sourceDateEpoch = MaxLastUpdated

\* The returned epoch is the lastUpdated instant of some component, or the
\* zero instant.
EpochIsSomeLastUpdated ==
    (ldPc = "returned" /\ ldReturned.ok) =>
        \/ ldReturned.sourceDateEpoch = ZeroTime
        \/ \E t \in DOMAIN componentPackages :
               ldReturned.sourceDateEpoch = componentPackages[t].lastUpdated

-----------------------------------------------------------------------------
\* Provisioning twice.

\* The call a step makes, and the call made before it.
ThisCall == usrCall'[Len(usrCall')]
PreviousCall == usrCall[Len(usrCall)]

\* The shadow file with the bcrypt salt and digest left aside.
HashAside(file) ==
    [file EXCEPT !.lines = [i \in DOMAIN @ |-> [@[i] EXCEPT !.hash = <<@[1]>>]]]

\* The step repeats the call made before it, and both succeed.
SameCallAgain ==
    /\ usrCall # <<>>
    /\ ThisCall.kind = PreviousCall.kind /\ ThisCall.arg = PreviousCall.arg
    /\ ThisCall.err = "" /\ PreviousCall.err = ""

EntriesKept ==
    /\ groupFile' = groupFile /\ groupShadowFile' = groupShadowFile
    /\ passwdFile' = passwdFile /\ HashAside(shadowFile') = HashAside(shadowFile)

\* The step updates an entry of the file without giving an id.
UpdatesWithoutID(kind, lines) ==
    /\ ThisCall.kind = kind /\ ThisCall.err = ""
    /\ (IF kind = "group" THEN ThisCall.arg.GID ELSE ThisCall.arg.UID) = 0
    /\ \E i \in DOMAIN lines : lines[i].name = ThisCall.arg.Name

\* C30: CreateOrUpdateGroup and CreateOrUpdateUser are idempotent and keep
\* identities: the same call made a second time leaves the group, gshadow,
\* passwd and shadow entries (password hash aside) as they were, and an
\* update of an existing group or user that gives no id keeps the entry's id.
C30_IdempotentKeepsID ==
    [][/\ SameCallAgain => EntriesKept
       /\ UpdatesWithoutID("group", groupFile) =>
              \A i \in DOMAIN groupFile, j \in DOMAIN groupFile' :
                  (groupFile[i].name = ThisCall.arg.Name
                      /\ groupFile'[j].name = ThisCall.arg.Name)
                  => groupFile'[j].gid = groupFile[i].gid
       /\ UpdatesWithoutID("user", passwdFile) =>
              \A i \in DOMAIN passwdFile, j \in DOMAIN passwdFile' :
                  (passwdFile[i].name = ThisCall.arg.Name
                      /\ passwdFile'[j].name = ThisCall.arg.Name)
                  => passwdFile'[j].uid = passwdFile[i].uid]_vars

\* A call that gives the id, made a second time, leaves the entries as they
\* were.
IdempotentWithID ==
    [][(/\ SameCallAgain
        /\ (IF ThisCall.kind = "group" THEN ThisCall.arg.GID ELSE ThisCall.arg.UID) # 0)
       => EntriesKept]_vars

====
